---- MODULE Spec2Model ----
(***************************************************************************)
(* A model of the PowerFlow agents: the PDF relevance screener's response  *)
(* validator, the extraction pipeline with its enum coercion and bounded   *)
(* retry, the actor scorer with its batch variant, and the CLI ingestion   *)
(* driver.  Each component has its own specification (SpecScreen,          *)
(* SpecExtract, SpecScore, SpecLog) over its own variables.                *)
(***************************************************************************)
EXTENDS Integers, Sequences, FiniteSets, TLC

VARIABLES
    \* screener: _parse_and_validate(raw)
    raw,        \* the raw model text, as a sequence of lexical tokens
    data,       \* the JSON object the "members" token of raw stands for
    result,     \* what _parse_and_validate returned or raised
    spc,        \* position of the screening run
    \* extractor: extract(text)
    x_pc,       \* position of the extraction
    x_calls,    \* the text-generation calls issued, each [strict]
    x_resps,    \* the raw responses received, in order
    x_data,     \* the object parsed from the latest response
    x_out,      \* what _validate_and_coerce returned
    x_warn,     \* the fields _coerce warned about, in order
    x_err,      \* the exception extract raised: [class, raws]
    \* score agent: score_actors(actor_page_ids) and score_actor(actor_page_id)
    s_ids,      \* the batch's input list
    s_i,        \* index of the entity being scored (1-based)
    s_pc,       \* position of the batch / of the current score_actor
    s_calls,    \* text-generation calls of the current score_actor, each [strict]
    s_resps,    \* raw responses of the current score_actor, in order
    s_scores,   \* the object parsed from the latest response
    s_err,      \* the exception the current score_actor raised: [class, msg]
    s_ret,      \* what the current score_actor returned
    s_results,  \* the batch's result list
    s_updates,  \* the page updates issued to the store, in order
    \* CLI ingestion driver: main()
    c_pc,       \* the step main() is at, or ended at
    c_url,      \* whether url is set
    c_data,     \* what extractor.extract returned
    c_pages,    \* the pages of the document store, in creation order
    c_results,  \* actor_results
    c_linked,   \* the Key Actors relation written on the event
    c_end,      \* "running", or how the run ended
    c_exc,      \* the exception that ended it
    c_confirm,  \* the answer to the confirmation prompt, stripped and lowered
    c_source_id,  \* source_page_id: 0 before write_source returned
    \* brief app: session state and the store
    b_pc,       \* "page" between clicks, "log" inside the approve handler
    b_gen,      \* briefs generated so far
    b_text,     \* session_state.brief_text: 0 for None, else the brief's number
    b_saved,    \* whether session_state.saved_url is set
    b_briefs,   \* the briefs saved to the store, in order
    b_logs,     \* the log_brief_activity calls made, in order
    b_status,   \* the status the approve handler is about to log
    b_shown,    \* the Approve button as the latest script run drew it
    \* stage functions that wrap the service error: screen(pdf_path), generate_brief(data, priority)
    f_pc,       \* position of screen
    f_text,     \* the text extracted from the PDF: "blank", "short", "text" or "long"
    f_calls,    \* the text-generation calls screen issued, each [truncated]
    f_err,      \* the class of the exception screen raised
    g_pc,       \* position of generate_brief
    g_calls,    \* the number of text-generation calls generate_brief issued
    g_err,      \* the class of the exception generate_brief raised
    \* text writers: _rich_text of the three writers, _brief_text_to_blocks
    t_pc,       \* position of the writer call
    t_fn,       \* the function called
    t_in,       \* its text: [len, lines]
    t_out,      \* the content elements it built, each a slice [from, to] of its text or line
    \* write_actors(actors, event_page_id): the registry and the invocations
    a_reg,      \* the pages of the Actors Registry, in creation order
    a_inv,      \* per invocation: [pc, actors, i, results]
    \* database queries: fetcher._query_database, notion_reader._fetch_linked_events
    q_pc,       \* position of the query function
    q_fn,       \* the query function called
    q_pages,    \* the pages in which the store hands out the matching records
    q_cursor,   \* start_cursor: 0 for None, else the page it names
    q_requests,  \* the start_cursor of each request sent, in order
    q_results,  \* the records received so far, in order
    \* screener app, app.py: the upload widget, the session state and the store
    p_event,    \* the user event the latest script run answered
    p_upload,   \* the content of the uploaded file, "none" without one
    p_hash,     \* session_state pdf_hash, "none" when unset
    p_screen,   \* session_state screen_result: "absent" or "result"
    p_status,   \* session_state ingestion_status: "absent", "success" or "failed"
    p_store,    \* the create and update calls the store accepted, in order
    p_stages,   \* the stages the latest ingestion chain called, in order
    p_failed,   \* the stage of the latest chain that raised, "" when none did
    p_chains    \* the number of times the ingestion chain was executed

screenVars == <<raw, data, result, spc>>
extractVars == <<x_pc, x_calls, x_resps, x_data, x_out, x_warn, x_err>>

scoreVars ==
    <<s_ids, s_i, s_pc, s_calls, s_resps, s_scores, s_err, s_ret, s_results, s_updates>>

cliVars ==
    <<c_pc, c_url, c_data, c_pages, c_results, c_linked, c_end, c_exc, c_confirm,
      c_source_id>>
briefVars == <<b_pc, b_gen, b_text, b_saved, b_briefs, b_logs, b_status, b_shown>>

stageVars == <<f_pc, f_text, f_calls, f_err, g_pc, g_calls, g_err>>

textVars == <<t_pc, t_fn, t_in, t_out>>

actorsVars == <<a_reg, a_inv>>

queryVars == <<q_pc, q_fn, q_pages, q_cursor, q_requests, q_results>>

appVars == <<p_event, p_upload, p_hash, p_screen, p_status, p_store, p_stages, p_failed, p_chains>>

notScreenVars ==
    <<extractVars, scoreVars, cliVars, briefVars, stageVars, textVars, actorsVars, queryVars, appVars>>
notExtractVars ==
    <<screenVars, scoreVars, cliVars, briefVars, stageVars, textVars, actorsVars, queryVars, appVars>>
notScoreVars ==
    <<screenVars, extractVars, cliVars, briefVars, stageVars, textVars, actorsVars, queryVars, appVars>>
notCliVars ==
    <<screenVars, extractVars, scoreVars, briefVars, stageVars, textVars, actorsVars, queryVars, appVars>>
notBriefVars ==
    <<screenVars, extractVars, scoreVars, cliVars, stageVars, textVars, actorsVars, queryVars, appVars>>
notStageVars ==
    <<screenVars, extractVars, scoreVars, cliVars, briefVars, textVars, actorsVars, queryVars, appVars>>
notTextVars ==
    <<screenVars, extractVars, scoreVars, cliVars, briefVars, stageVars, actorsVars, queryVars, appVars>>
notActorsVars ==
    <<screenVars, extractVars, scoreVars, cliVars, briefVars, stageVars, textVars, queryVars, appVars>>
notQueryVars ==
    <<screenVars, extractVars, scoreVars, cliVars, briefVars, stageVars, textVars, actorsVars, appVars>>
notAppVars ==
    <<screenVars, extractVars, scoreVars, cliVars, briefVars, stageVars, textVars, actorsVars, queryVars>>

(***************************************************************************)
(* JSON / Python values.  A scalar is [t, n, s]: t is the Python type of   *)
(* the parsed value ("absent" when the key is missing), n its number and s *)
(* its text.  A float carries its value in tenths (379 is 37.9); "inf" is  *)
(* what json.loads makes of 1e999 or Infinity; "numstr" is a string that   *)
(* int() can read, such as "85".                                           *)
(***************************************************************************)
V(t, n, s) == [t |-> t, n |-> n, s |-> s]
Absent     == V("absent", 0, "")
Null       == V("null", 0, "")
IntV(n)    == V("int", n, "")
FloatV(n)  == V("float", n, "")
StrV(s)    == V("str", 0, s)
NumStrV(n) == V("numstr", n, ToString(n))
BoolV(n)   == V("bool", n, "")
InfV       == V("inf", 0, "")
ListV      == V("list", 0, "")

\* dict.get(key, default): the default only when the key is missing.
Get(v, default) == IF v.t = "absent" THEN default ELSE v

Max(a, b) == IF a >= b THEN a ELSE b
Min(a, b) == IF a <= b THEN a ELSE b

\* A float in tenths, truncated toward zero as Python's int() does.
Trunc10(n) == IF n >= 0 THEN n \div 10 ELSE -((-n) \div 10)

\* int(v): [ok, n, err].  bool is a subclass of int; int(None) and int([])
\* raise TypeError, int("high") ValueError, int(float("inf")) OverflowError.
PyInt(v) ==
    CASE v.t = "int"    -> [ok |-> TRUE, n |-> v.n, err |-> ""]
      [] v.t = "bool"   -> [ok |-> TRUE, n |-> v.n, err |-> ""]
      [] v.t = "float"  -> [ok |-> TRUE, n |-> Trunc10(v.n), err |-> ""]
      [] v.t = "numstr" -> [ok |-> TRUE, n |-> v.n, err |-> ""]
      [] v.t = "str"    -> [ok |-> FALSE, n |-> 0, err |-> "ValueError"]
      [] v.t = "inf"    -> [ok |-> FALSE, n |-> 0, err |-> "OverflowError"]
      [] OTHER          -> [ok |-> FALSE, n |-> 0, err |-> "TypeError"]

\* str(v)
PyStr(v) ==
    CASE v.t \in {"str", "numstr"} -> v.s
      [] v.t = "int"               -> ToString(v.n)
      [] v.t = "bool"              -> IF v.n = 1 THEN "True" ELSE "False"
      [] v.t = "null"              -> "None"
      [] v.t = "inf"               -> "inf"
      [] v.t = "list"              -> "[]"
      [] OTHER                     -> ""

\* isinstance(v, (int, float))
IsNumber(v) == v.t \in {"int", "bool", "float", "inf"}

(***************************************************************************)
(* Raw text as tokens: "fence" a markdown code fence, "json"/"JSON" a      *)
(* language tag, "ws" whitespace, "prose" text without braces, "{" and     *)
(* "}", "members" the well-formed member list of the parsed object,        *)
(* "junk" text that is not well-formed JSON.                               *)
(***************************************************************************)
RECURSIVE DropLeadingWs(_)
DropLeadingWs(toks) ==
    IF toks # <<>> /\ Head(toks) = "ws" THEN DropLeadingWs(Tail(toks)) ELSE toks

RECURSIVE DropTrailingWs(_)
DropTrailingWs(toks) ==
    IF toks # <<>> /\ toks[Len(toks)] = "ws"
    THEN DropTrailingWs(SubSeq(toks, 1, Len(toks) - 1))
    ELSE toks

\* re.sub of an opening fence, an optional json tag (any case) and whitespace
StripOpeningFence(toks) ==
    IF toks # <<>> /\ Head(toks) = "fence"
    THEN LET rest == Tail(toks)
             untagged == IF rest # <<>> /\ Head(rest) \in {"json", "JSON"}
                         THEN Tail(rest) ELSE rest
         IN  DropLeadingWs(untagged)
    ELSE toks

\* re.sub of whitespace and a closing fence at the end
StripClosingFence(toks) ==
    IF toks # <<>> /\ toks[Len(toks)] = "fence"
    THEN DropTrailingWs(SubSeq(toks, 1, Len(toks) - 1))
    ELSE toks

\* str.strip()
Strip(toks) == DropTrailingWs(DropLeadingWs(toks))

Cleaned(toks) == Strip(StripClosingFence(StripOpeningFence(toks)))

\* re.search(r"\{.*\}", cleaned, re.DOTALL): from the first "{" to the last
\* "}" after it; <<>> stands for no match.
BraceSpan(toks) ==
    LET opens  == {i \in 1..Len(toks) : toks[i] = "{"}
        closes == {i \in 1..Len(toks) : toks[i] = "}"}
    IN  IF opens = {} \/ closes = {} THEN <<>>
        ELSE LET first == CHOOSE i \in opens : \A j \in opens : i <= j
                 last  == CHOOSE i \in closes : \A j \in closes : i >= j
             IN  IF first < last THEN SubSeq(toks, first, last) ELSE <<>>

\* json.loads(span) succeeds exactly on one object: whitespace aside, the
\* span is { members }.
JsonLoadsOk(span) == SelectSeq(span, LAMBDA t : t # "ws") = <<"{", "members", "}">>

\* _parse_json of the extractor and of the score agent: "ok", or the
\* ValueError of a missing span or of json.loads (JSONDecodeError).
ParseJsonOk(toks) ==
    LET span == BraceSpan(Cleaned(toks)) IN span # <<>> /\ JsonLoadsOk(span)

(***************************************************************************)
(* The screener's response validator, agents/ingest/screener.py.           *)
(***************************************************************************)
ValidVerdicts == {"Strong Match", "Moderate Match", "Weak Match", "Not Relevant"}

NotionDatabases ==
    {"Events Timeline", "Actors Registry", "PowerFlow Assessments",
     "Conflicts Registry", "Geopolitical Units", "Scenarios & Stress Tests"}

DimKeys ==
    {"sovereignty_gap_centrality", "actor_relevance", "event_actionability",
     "geographic_scope", "source_quality"}

MaxKeySignals == 5

NoDims == [t |-> "absent", d |-> <<>>]
NoPenalties == [t |-> "absent", n |-> 0]

\* What the validator hands back: a result (ok), or the exception it raised
\* with the place it was raised at.
Raised(e, where) ==
    [ok |-> FALSE, err |-> e, at |-> where, score |-> 0, verdict |-> "",
     reasoning |-> "", affected_databases |-> <<>>, key_signals |-> <<>>,
     dimension_scores |-> NoDims, penalties |-> NoPenalties]

NoResult == Raised("", "")

\* The verdict recomputed from the clamped score.
Tier(score) ==
    IF score >= 70 THEN "Strong Match"
    ELSE IF score >= 40 THEN "Moderate Match"
    ELSE IF score >= 10 THEN "Weak Match"
    ELSE "Not Relevant"

\* verdict = data.get("verdict", "Not Relevant"), recomputed when it is not
\* one of the four labels; and a variant that keeps whatever was stated.
VerdictOf_asStated(v, score) == PyStr(Get(v, StrV("Not Relevant")))
VerdictOf(v, score) ==
    LET verdict == Get(v, StrV("Not Relevant"))
    IN  IF verdict.t = "str" /\ verdict.s \in ValidVerdicts
        THEN verdict.s
        ELSE Tier(score)

\* [db for db in data.get("affected_databases", []) if db in _NOTION_DATABASES]
\* iterates its operand: None and numbers are not iterable, the characters
\* of a string are never database names.
AffectedOk(a) == a.t \in {"absent", "list", "str"}
AffectedOf_unfiltered(a) == IF a.t = "list" THEN a.l ELSE <<>>
AffectedOf(a) ==
    IF a.t = "list" THEN SelectSeq(a.l, LAMBDA db : db \in NotionDatabases) ELSE <<>>

\* [str(s) for s in key_signals[:5]] for a list, [] otherwise; and a variant
\* that slices [1:6], and one that does not slice.
KeySignalsOf_uncut(k) ==
    IF k.t = "list" THEN [i \in 1..Len(k.l) |-> PyStr(k.l[i])] ELSE <<>>
KeySignalsOf_skipFirst(k) ==
    IF k.t = "list"
    THEN [i \in 1..Min(MaxKeySignals, Max(0, Len(k.l) - 1)) |-> PyStr(k.l[i + 1])]
    ELSE <<>>
KeySignalsOf(k) ==
    IF k.t = "list"
    THEN [i \in 1..Min(MaxKeySignals, Len(k.l)) |-> PyStr(k.l[i])]
    ELSE <<>>

\* The keys of raw_dims that survive the comprehension's filter; and a
\* variant without the filter on the key.
DimKept_anyKey(m) == {k \in DOMAIN m : IsNumber(m[k])}
DimKept(m) == {k \in DOMAIN m : k \in DimKeys /\ IsNumber(m[k])}
DimsOk(dm) == dm.t # "dict" \/ \A k \in DimKept(dm.d) : PyInt(dm.d[k]).ok
DimsOf(dm) ==
    IF dm.t = "dict"
    THEN [t |-> "dict",
          d |-> [k \in DimKept(dm.d) |-> Max(0, Min(20, PyInt(dm.d[k]).n))]]
    ELSE NoDims

PenaltiesOk(p) == ~IsNumber(p) \/ PyInt(p).ok
PenaltiesOf(p) == IF IsNumber(p) THEN [t |-> "int", n |-> PyInt(p).n] ELSE NoPenalties

\* score = max(0, min(100, score)), and a variant that forgets the floor.
ClampScore_noFloor(n) == Min(100, n)
ClampScore(n) == Max(0, Min(100, n))

\* The body of _parse_and_validate after json.loads, in statement order.
Validate(d) ==
    LET sc      == PyInt(Get(d.score, IntV(0)))
        score   == ClampScore(sc.n)
        verdict == Get(d.verdict, StrV("Not Relevant"))
    IN  IF ~sc.ok THEN Raised(sc.err, "score")
        ELSE IF verdict.t = "list" THEN Raised("TypeError", "verdict")
        ELSE IF ~AffectedOk(d.affected_databases)
             THEN Raised("TypeError", "affected_databases")
        ELSE IF ~DimsOk(d.dimension_scores)
             THEN Raised("OverflowError", "dimension_scores")
        ELSE IF ~PenaltiesOk(d.penalties) THEN Raised("OverflowError", "penalties")
        ELSE [ok |-> TRUE, err |-> "", at |-> "",
              score |-> score,
              verdict |-> VerdictOf(d.verdict, score),
              reasoning |-> PyStr(Get(d.reasoning, StrV(""))),
              affected_databases |-> AffectedOf(d.affected_databases),
              key_signals |-> KeySignalsOf(d.key_signals),
              dimension_scores |-> DimsOf(d.dimension_scores),
              penalties |-> PenaltiesOf(d.penalties)]

parse_and_validate(toks, d) ==
    LET span == BraceSpan(Cleaned(toks))
    IN  IF span = <<>> THEN Raised("ValueError", "search")
        ELSE IF ~JsonLoadsOk(span) THEN Raised("ValueError", "json.loads")
        ELSE Validate(d)

(***************************************************************************)
(* Inputs of the validator.  The fields of a response are validated one    *)
(* after the other, and only score and verdict meet, so the inputs are     *)
(* three families: every score with every verdict under every raw text,    *)
(* the two list fields together, and dimension_scores with penalties       *)
(* under a few scores and verdicts.                                        *)
(***************************************************************************)
MaxAffected == 2     \* longest affected_databases list of a response
MaxSignalsIn == 6    \* longest key_signals list of a response

RawTexts ==
    { <<"{", "members", "}">>,
      <<"fence", "json", "ws", "{", "members", "}", "ws", "fence">>,
      <<"fence", "JSON", "ws", "{", "ws", "members", "ws", "}", "fence">>,
      <<"fence", "ws", "{", "members", "}">>,
      <<"prose", "ws", "{", "members", "}", "ws", "prose">>,
      <<"ws", "{", "members", "}", "ws">>,
      <<>>,
      <<"prose">>,
      <<"fence", "json", "ws", "prose", "fence">>,
      <<"{", "junk", "}">>,
      <<"{", "members">>,
      <<"}", "prose", "{">>,
      <<"{", "members", "}", "prose", "{", "junk", "}">> }

PlainRaw == <<"{", "members", "}">>

ScoreInts == {-5, 0, 9, 10, 37, 39, 40, 69, 70, 85, 90, 100, 150}

ScoreVals ==
    {IntV(n) : n \in ScoreInts}
        \cup {Absent, Null, StrV("high"), NumStrV(85), FloatV(379), FloatV(-5),
              FloatV(1007), BoolV(1), InfV, ListV}

VerdictVals ==
    {StrV(v) : v \in ValidVerdicts} \cup {Absent, Null, StrV("Maybe"), ListV}

ReasoningVals == {Absent, Null, StrV("because"), IntV(3)}

DbNames == {"Events Timeline", "Actors Registry", "Bogus DB"}

RECURSIVE SeqsUpTo(_, _)
SeqsUpTo(S, n) ==
    IF n = 0 THEN {<<>>}
    ELSE LET shorter == SeqsUpTo(S, n - 1)
         IN  shorter \cup {Append(q, x) : q \in {r \in shorter : Len(r) = n - 1}, x \in S}

NoList(t) == [t |-> t, l |-> <<>>]

AffectedVals ==
    {[t |-> "list", l |-> q] : q \in SeqsUpTo(DbNames, MaxAffected)}
        \cup {NoList("absent"), NoList("null"), NoList("int"), NoList("str")}

SignalAt(i) == IF i = 2 THEN IntV(7) ELSE IF i = 3 THEN Null ELSE StrV(ToString(i))

KeySignalVals ==
    {[t |-> "list", l |-> [i \in 1..n |-> SignalAt(i)]] : n \in 0..MaxSignalsIn}
        \cup {NoList("absent"), NoList("null"), NoList("str")}

DimValChoices == {IntV(-3), IntV(12), IntV(25), FloatV(125), StrV("x"), BoolV(1), InfV}

DimKeySets == {DimKeys, DimKeys \cup {"bonus"}, {"actor_relevance", "bonus"}, {}}

\* The maps that sum to 47 on the five dimensions: 12 + 10 + 9 + 8 + 8.
Dims47 ==
    [k \in DimKeys |->
        CASE k = "sovereignty_gap_centrality" -> IntV(12)
          [] k = "actor_relevance"            -> IntV(10)
          [] k = "event_actionability"        -> IntV(9)
          [] OTHER                            -> IntV(8)]

DimVals ==
    {[t |-> "dict", d |-> [k \in ks |-> IF k = "actor_relevance" THEN v ELSE w]] :
        ks \in DimKeySets, v \in DimValChoices, w \in DimValChoices}
        \cup {[t |-> "dict", d |-> Dims47], NoDims, [t |-> "null", d |-> <<>>],
              [t |-> "list", d |-> <<>>]}

PenaltyVals ==
    {Absent, Null, IntV(-10), IntV(0), IntV(5), FloatV(-25), StrV("-5"), BoolV(1), InfV}

Response(sc, vd, rs, af, ks, dm, pn) ==
    [score |-> sc, verdict |-> vd, reasoning |-> rs, affected_databases |-> af,
     key_signals |-> ks, dimension_scores |-> dm, penalties |-> pn]

ScreenInputs ==
    {[raw |-> r, data |-> Response(sc, vd, Absent, NoList("absent"), NoList("absent"),
                                   NoDims, Absent)] :
        r \in RawTexts, sc \in ScoreVals, vd \in VerdictVals}
    \cup
    {[raw |-> PlainRaw, data |-> Response(sc, StrV("Maybe"), rs, af, ks, NoDims, Absent)] :
        sc \in {IntV(85), Absent}, rs \in ReasoningVals, af \in AffectedVals,
        ks \in KeySignalVals}
    \cup
    {[raw |-> PlainRaw, data |-> Response(sc, vd, Absent, NoList("absent"),
                                          NoList("absent"), dm, pn)] :
        sc \in {IntV(37), IntV(90), Absent},
        vd \in {Absent, StrV("Maybe"), StrV("Weak Match")},
        dm \in DimVals, pn \in PenaltyVals}

(***************************************************************************)
(* The screening run: one response is validated.                           *)
(***************************************************************************)
ScreenIdle ==
    /\ raw = <<>>
    /\ data = Response(Absent, Absent, Absent, NoList("absent"), NoList("absent"),
                       NoDims, Absent)
    /\ result = NoResult
    /\ spc = "idle"

ScreenInit ==
    /\ \E in \in ScreenInputs : raw = in.raw /\ data = in.data
    /\ result = NoResult
    /\ spc = "ready"

ParseAndValidate ==
    /\ spc = "ready"
    /\ result' = parse_and_validate(raw, data)
    /\ spc' = IF result'.ok THEN "returned" ELSE "raised"
    /\ UNCHANGED <<raw, data>>
    /\ UNCHANGED notScreenVars

(***************************************************************************)
(* The extraction pipeline, agents/ingest/extractor.py, with the valid     *)
(* value sets of config/settings.py.                                       *)
(***************************************************************************)
VALID_SOURCE_TYPES ==
    {"Academic", "Government", "News", "Think tank", "OSINT", "Legal document", "Other"}

VALID_RELIABILITY == {"High", "Medium", "Low"}

VALID_EVENT_TYPES ==
    {"Legal change", "Military or coercive action", "Sanctions or economic measure",
     "Institutional reform", "Alliance or treaty shift", "Information-cyber", "Other"}

VALID_PF_SIGNAL_IMPACTS == {"Widens", "Narrows", "No clear effect", "Indirect"}

VALID_ACTOR_TYPES == {"State", "Non-State", "Hybrid", "IGO", "Individual"}

\* The text of a field value; None (JSON null) is shown as "None".
Text(v) == IF v.t = "null" THEN "None" ELSE v.s

\* value in valid_set
InSet(v, valid_set) == v.t = "str" /\ v.s \in valid_set

\* _coerce(value, valid_set, field_name, default="Other"): the value kept or
\* the default, and whether a warning was printed.
coerce(value, valid_set, default) ==
    IF InSet(value, valid_set) THEN value.s ELSE default

Warns(value, valid_set) == ~InSet(value, valid_set)

\* The default parameter of _coerce, used by the four calls that pass none.
DefaultOther == "Other"

\* iso3 if isinstance(iso3, str) and iso3.strip() else None
NormIso3(v) == IF v.t = "str" /\ v.s \notin {"", " "} THEN v.s ELSE "None"

IsDict(a) == a.t = "dict"

\* One actor of the loop; and a variant that calls _coerce without
\* default="Non-State".
coerce_actor_defaultOther(a) ==
    [name |-> a.name,
     actor_type |-> coerce(Get(a.actor_type, StrV("")), VALID_ACTOR_TYPES, DefaultOther),
     iso3 |-> NormIso3(a.iso3)]
coerce_actor(a) ==
    [name |-> a.name,
     actor_type |-> coerce(Get(a.actor_type, StrV("")), VALID_ACTOR_TYPES, "Non-State"),
     iso3 |-> NormIso3(a.iso3)]

\* _validate_and_coerce(data): source and event with their enum fields
\* coerced, and the actors that are dicts, coerced, in order.
validate_and_coerce(d) ==
    LET dicts == SelectSeq(d.actors, IsDict)
    IN  [source |-> [source_type |-> coerce(Get(d.source_type, StrV("")),
                                            VALID_SOURCE_TYPES, DefaultOther),
                     reliability |-> coerce(Get(d.reliability, StrV("")),
                                            VALID_RELIABILITY, DefaultOther)],
         event  |-> [event_type |-> coerce(Get(d.event_type, StrV("")),
                                           VALID_EVENT_TYPES, DefaultOther),
                     pf_signal |-> coerce(Get(d.pf_signal, StrV("")),
                                          VALID_PF_SIGNAL_IMPACTS, DefaultOther)],
         actors |-> [i \in 1..Len(dicts) |-> coerce_actor(dicts[i])]]

\* The warnings _validate_and_coerce prints, in call order.
CoerceWarnings(d) ==
    LET dicts == SelectSeq(d.actors, IsDict)
        w(v, S, f) == IF Warns(Get(v, StrV("")), S) THEN <<f>> ELSE <<>>
        actorWarns[i \in 0..Len(dicts)] ==
            IF i = 0 THEN <<>>
            ELSE actorWarns[i - 1]
                    \o w(dicts[i].actor_type, VALID_ACTOR_TYPES, "actors.actor_type")
    IN  w(d.source_type, VALID_SOURCE_TYPES, "source.source_type")
            \o w(d.reliability, VALID_RELIABILITY, "source.reliability")
            \o w(d.event_type, VALID_EVENT_TYPES, "event.event_type")
            \o w(d.pf_signal, VALID_PF_SIGNAL_IMPACTS, "event.pf_signal")
            \o actorWarns[Len(dicts)]

NoExtraction ==
    [source |-> [source_type |-> "", reliability |-> ""],
     event |-> [event_type |-> "", pf_signal |-> ""],
     actors |-> <<>>]

NoError == [class |-> "", raws |-> <<>>]

(***************************************************************************)
(* Responses of the text-generation service to the extraction prompt.      *)
(***************************************************************************)
MaxActors == 2     \* longest actors list of a response

ExtractRaws ==
    { <<"{", "members", "}">>,
      <<"fence", "json", "ws", "{", "members", "}", "ws", "fence">>,
      <<"prose">>,
      <<"{", "junk", "}">> }

SourceTypeVals == {Absent, Null, StrV("News"), StrV("Other"), StrV("Blog")}
ReliabilityVals == {Absent, StrV("High"), StrV("Medium"), StrV("Other"), StrV("Certain")}
EventTypeVals == {Absent, StrV("Legal change"), StrV("Other"), StrV("Riot")}
PfSignalVals == {Absent, StrV("Widens"), StrV("Indirect"), StrV("Other"), StrV("Grows")}

ActorTypeVals == {Absent, StrV("State"), StrV("IGO"), StrV("Warlord"), StrV("Other")}
Iso3Vals == {Absent, StrV("USA"), StrV(" ")}

ActorVals ==
    {[t |-> "dict", name |-> "Wagner", actor_type |-> at, iso3 |-> iso] :
        at \in ActorTypeVals, iso \in Iso3Vals}
        \cup {[t |-> "str", name |-> "", actor_type |-> Absent, iso3 |-> Absent]}

Extraction(st, rl, et, pf, as) ==
    [source_type |-> st, reliability |-> rl, event_type |-> et, pf_signal |-> pf,
     actors |-> as]

EmptyExtraction == Extraction(Absent, Absent, Absent, Absent, <<>>)

ExtractDatas ==
    {Extraction(st, rl, et, pf, as) :
        st \in SourceTypeVals, rl \in ReliabilityVals, et \in EventTypeVals,
        pf \in PfSignalVals,
        as \in {<<>>, <<[t |-> "dict", name |-> "Wagner",
                         actor_type |-> StrV("Warlord"), iso3 |-> Absent]>>}}
    \cup
    {Extraction(StrV("News"), rl, StrV("Other"), Absent, as) :
        rl \in {StrV("High"), StrV("Certain")}, as \in SeqsUpTo(ActorVals, MaxActors)}

\* What one call can bring back: a raw text (with the object its "members"
\* stand for), or the service's APIError.
ExtractResponses ==
    {[api |-> "ok", raw |-> r, data |-> d] :
        r \in {q \in ExtractRaws : ParseJsonOk(q)}, d \in ExtractDatas}
    \cup {[api |-> "ok", raw |-> r, data |-> EmptyExtraction] :
        r \in {q \in ExtractRaws : ~ParseJsonOk(q)}}
    \cup {[api |-> "APIError", raw |-> <<>>, data |-> EmptyExtraction]}

(***************************************************************************)
(* extract(text): call, parse, retry once with the strict suffix, coerce.  *)
(***************************************************************************)
ExtractIdle ==
    /\ x_pc = "idle"
    /\ x_calls = <<>>
    /\ x_resps = <<>>
    /\ x_data = EmptyExtraction
    /\ x_out = NoExtraction
    /\ x_warn = <<>>
    /\ x_err = NoError

ExtractInit ==
    /\ x_pc = "start"
    /\ x_calls = <<>>
    /\ x_resps = <<>>
    /\ x_data = EmptyExtraction
    /\ x_out = NoExtraction
    /\ x_warn = <<>>
    /\ x_err = NoError

\* _call_claude(client, text, strict) and what follows from its outcome:
\* an APIError leaves extract as it is, a response is kept in raw.
ExtractCall(strict, r, next) ==
    /\ x_calls' = Append(x_calls, [strict |-> strict])
    /\ IF r.api = "ok"
       THEN /\ x_resps' = Append(x_resps, r.raw)
            /\ x_data' = r.data
            /\ x_pc' = next
            /\ x_err' = x_err
       ELSE /\ x_pc' = "raised"
            /\ x_err' = [class |-> r.api, raws |-> <<>>]
            /\ UNCHANGED <<x_resps, x_data>>
    /\ UNCHANGED <<x_out, x_warn>>

\* The parse of the first response failed: the except branch is taken.
MustRetry_never(r) == FALSE
MustRetry(r) == ~ParseJsonOk(r)

FirstCall ==
    /\ x_pc = "start"
    /\ \E r \in ExtractResponses : ExtractCall(FALSE, r, "first")
    /\ UNCHANGED notExtractVars

RetryCall ==
    /\ x_pc = "first"
    /\ MustRetry(x_resps[1])
    /\ \E r \in ExtractResponses : ExtractCall(TRUE, r, "second")
    /\ UNCHANGED notExtractVars

\* Both attempts were malformed: RuntimeError, its message holding raw,
\* which by now is the second response.
GiveUp ==
    /\ x_pc = "second"
    /\ ~ParseJsonOk(x_resps[2])
    /\ x_pc' = "raised"
    /\ x_err' = [class |-> "RuntimeError", raws |-> <<x_resps[2]>>]
    /\ UNCHANGED <<x_calls, x_resps, x_data, x_out, x_warn>>
    /\ UNCHANGED notExtractVars

\* return _validate_and_coerce(data)
CoerceAndReturn ==
    /\ \/ x_pc = "first" /\ ~MustRetry(x_resps[1])
       \/ x_pc = "second" /\ ParseJsonOk(x_resps[2])
    /\ x_out' = validate_and_coerce(x_data)
    /\ x_warn' = CoerceWarnings(x_data)
    /\ x_pc' = "returned"
    /\ UNCHANGED <<x_calls, x_resps, x_data, x_err>>
    /\ UNCHANGED notExtractVars

ExtractNext == FirstCall \/ RetryCall \/ GiveUp \/ CoerceAndReturn

(***************************************************************************)
(* The score agent, agents/score/score_agent.py.                           *)
(***************************************************************************)
\* isinstance(val, int) and 0 <= val <= 100; bool is a subclass of int.
IsIntInRange_noRange(v) == v.t \in {"int", "bool"}
IsIntInRange(v) == v.t \in {"int", "bool"} /\ 0 <= v.n /\ v.n <= 100

\* _validate_scores(scores): "" when it passes, else the field its
\* ValueError names.
validate_scores(sc) ==
    IF ~IsIntInRange(sc.authority_score) THEN "authority_score"
    ELSE IF ~IsIntInRange(sc.reach_score) THEN "reach_score"
    ELSE IF sc.reasoning.t # "str" THEN "reasoning"
    ELSE ""

Scores(a, r, rs, pf) ==
    [authority_score |-> a, reach_score |-> r, reasoning |-> rs, pf_score |-> pf]

NoScores == Scores(Absent, Absent, Absent, Absent)

\* The dict score_actor returns; pf_score is kept in tenths:
\* authority * 0.6 + reach * 0.4 = (6 * authority + 4 * reach) / 10.  A
\* variant takes the pf_score of the response when there is one.
Success_trustsModel(id, sc) ==
    [actor_name |-> "name of " \o id, actor_page_id |-> id,
     authority_score |-> sc.authority_score, reach_score |-> sc.reach_score,
     pf_score10 |-> IF sc.pf_score.t = "int" THEN IntV(10 * sc.pf_score.n)
                    ELSE IntV(6 * sc.authority_score.n + 4 * sc.reach_score.n),
     reasoning |-> sc.reasoning, success |-> TRUE, error |-> "None"]
Success(id, sc) ==
    [actor_name |-> "name of " \o id, actor_page_id |-> id,
     authority_score |-> sc.authority_score, reach_score |-> sc.reach_score,
     pf_score10 |-> IntV(6 * sc.authority_score.n + 4 * sc.reach_score.n),
     reasoning |-> sc.reasoning, success |-> TRUE, error |-> "None"]

\* The dict score_actors records for an entity whose scoring raised.
Failure(id, err) ==
    [actor_name |-> id, actor_page_id |-> id,
     authority_score |-> Null, reach_score |-> Null, pf_score10 |-> Null,
     reasoning |-> Null, success |-> FALSE, error |-> err.msg]

NoReturn == Failure("", [class |-> "", msg |-> ""])

NoScoreError == [class |-> "", msg |-> ""]

(***************************************************************************)
(* Inputs of the score agent.                                              *)
(***************************************************************************)
MaxBatch == 2      \* longest list handed to score_actors

ActorIds == {"a1", "a2"}

ScoreRaws ==
    { <<"{", "members", "}">>,
      <<"fence", "ws", "{", "members", "}", "ws", "fence">>,
      <<"prose">>,
      <<"{", "junk", "}">> }

AuthorityVals ==
    {IntV(0), IntV(70), IntV(150), IntV(-1), FloatV(700), BoolV(1), Absent}
ReachVals == {IntV(40), IntV(101), Null}

\* The two scores are validated one after the other: every authority
\* score meets the valid reach score, every reach score the valid
\* authority score.
ScoreDatas ==
    {Scores(p[1], p[2], rs, pf) :
        p \in {q \in AuthorityVals \X ReachVals : q[1] = IntV(70) \/ q[2] = IntV(40)},
        rs \in {StrV("why"), Absent},
        pf \in {Absent, IntV(99)}}

ScoreResponses ==
    {[api |-> "ok", raw |-> r, data |-> d] :
        r \in {q \in ScoreRaws : ParseJsonOk(q)}, d \in ScoreDatas}
    \cup {[api |-> "ok", raw |-> r, data |-> NoScores] :
        r \in {q \in ScoreRaws : ~ParseJsonOk(q)}}
    \cup {[api |-> "APIError", raw |-> <<>>, data |-> NoScores]}

(***************************************************************************)
(* score_actors iterates the list; score_actor fetches, calls, parses      *)
(* with one retry, validates, writes, returns.                             *)
(***************************************************************************)
ScoreIdle ==
    /\ s_pc = "idle"
    /\ s_ids = <<>>
    /\ s_i = 1
    /\ s_calls = <<>>
    /\ s_resps = <<>>
    /\ s_scores = NoScores
    /\ s_err = NoScoreError
    /\ s_ret = NoReturn
    /\ s_results = <<>>
    /\ s_updates = <<>>

ScoreInit ==
    /\ s_pc = "loop"
    /\ s_ids \in SeqsUpTo(ActorIds, MaxBatch)
    /\ s_i = 1
    /\ s_calls = <<>>
    /\ s_resps = <<>>
    /\ s_scores = NoScores
    /\ s_err = NoScoreError
    /\ s_ret = NoReturn
    /\ s_results = <<>>
    /\ s_updates = <<>>

ScoreRaise(class, msg) ==
    /\ s_pc' = "raised"
    /\ s_err' = [class |-> class, msg |-> msg]

\* for i, actor_page_id in enumerate(actor_page_ids, 1): result =
\* score_actor(actor_page_id), which begins with fetch_actor_context.
\* The fetch raises RuntimeError on a store failure.
BeginActor ==
    /\ s_pc = "loop"
    /\ s_i <= Len(s_ids)
    /\ \/ s_pc' = "start" /\ s_err' = NoScoreError
       \/ ScoreRaise("RuntimeError", "Notion API error fetching actor page")
    /\ UNCHANGED <<s_ids, s_i, s_calls, s_resps, s_scores, s_ret, s_results, s_updates>>
    /\ UNCHANGED notScoreVars

\* _call_claude(client, user_msg, strict): an APIError of the service
\* leaves score_actor as it is.
ScoreCall(strict, r, next) ==
    /\ s_calls' = Append(s_calls, [strict |-> strict])
    /\ IF r.api = "ok"
       THEN /\ s_resps' = Append(s_resps, r.raw)
            /\ s_scores' = r.data
            /\ s_pc' = next
            /\ s_err' = s_err
       ELSE /\ ScoreRaise(r.api, "api error")
            /\ UNCHANGED <<s_resps, s_scores>>
    /\ UNCHANGED <<s_ids, s_i, s_ret, s_results, s_updates>>

ScoreFirstCall ==
    /\ s_pc = "start"
    /\ \E r \in ScoreResponses : ScoreCall(FALSE, r, "first")
    /\ UNCHANGED notScoreVars

\* The parse of the first response failed: the except branch is taken.
ScoreMustRetry(r) == ~ParseJsonOk(r)

ScoreRetryCall ==
    /\ s_pc = "first"
    /\ ScoreMustRetry(s_resps[1])
    /\ \E r \in ScoreResponses : ScoreCall(TRUE, r, "second")
    /\ UNCHANGED notScoreVars

ScoreGiveUp ==
    /\ s_pc = "second"
    /\ ~ParseJsonOk(s_resps[2])
    /\ ScoreRaise("RuntimeError", "Claude returned malformed JSON on both attempts")
    /\ UNCHANGED <<s_ids, s_i, s_calls, s_resps, s_scores, s_ret, s_results, s_updates>>
    /\ UNCHANGED notScoreVars

\* _validate_scores(scores)
ValidateScores ==
    /\ \/ s_pc = "first" /\ ~ScoreMustRetry(s_resps[1])
       \/ s_pc = "second" /\ ParseJsonOk(s_resps[2])
    /\ IF validate_scores(s_scores) = ""
       THEN s_pc' = "validated" /\ s_err' = s_err
       ELSE ScoreRaise("ValueError", "Invalid " \o validate_scores(s_scores))
    /\ UNCHANGED <<s_ids, s_i, s_calls, s_resps, s_scores, s_ret, s_results, s_updates>>
    /\ UNCHANGED notScoreVars

\* _write_scores_to_notion(actor_page_id, scores), then the return; the
\* update raises RuntimeError when the store rejects it.
WriteScores ==
    /\ s_pc = "validated"
    /\ \E accepted \in BOOLEAN :
          /\ s_updates' = Append(s_updates,
                [page_id |-> s_ids[s_i],
                 authority_score |-> s_scores.authority_score.n,
                 reach_score |-> s_scores.reach_score.n,
                 accepted |-> accepted])
          /\ IF accepted
             THEN /\ s_pc' = "returned"
                  /\ s_ret' = Success(s_ids[s_i], s_scores)
                  /\ s_err' = s_err
             ELSE /\ ScoreRaise("RuntimeError", "Notion API error writing scores")
                  /\ s_ret' = s_ret
    /\ UNCHANGED <<s_ids, s_i, s_calls, s_resps, s_scores, s_results>>
    /\ UNCHANGED notScoreVars

\* The locals of a finished score_actor are gone.
LocalsGone ==
    /\ s_calls' = <<>>
    /\ s_resps' = <<>>
    /\ s_scores' = NoScores
    /\ s_err' = NoScoreError
    /\ s_ret' = NoReturn

\* results.append(result)
AppendResult ==
    /\ s_pc = "returned"
    /\ s_results' = Append(s_results, s_ret)
    /\ s_i' = s_i + 1
    /\ s_pc' = "loop"
    /\ LocalsGone
    /\ UNCHANGED <<s_ids, s_updates>>
    /\ UNCHANGED notScoreVars

\* except Exception as exc: the failure is recorded and the loop goes on.
\* The variant lets the exception leave score_actors.
CatchFailure_propagate ==
    /\ s_pc = "raised"
    /\ s_pc' = "done"
    /\ UNCHANGED <<s_ids, s_i, s_calls, s_resps, s_scores, s_err, s_ret, s_results,
                   s_updates>>
    /\ UNCHANGED notScoreVars

CatchFailure ==
    /\ s_pc = "raised"
    /\ s_results' = Append(s_results, Failure(s_ids[s_i], s_err))
    /\ s_i' = s_i + 1
    /\ s_pc' = "loop"
    /\ LocalsGone
    /\ UNCHANGED <<s_ids, s_updates>>
    /\ UNCHANGED notScoreVars

\* return results
ReturnResults ==
    /\ s_pc = "loop"
    /\ s_i > Len(s_ids)
    /\ s_pc' = "done"
    /\ UNCHANGED <<s_ids, s_i, s_calls, s_resps, s_scores, s_err, s_ret, s_results,
                   s_updates>>
    /\ UNCHANGED notScoreVars

ScoreNext ==
    \/ BeginActor
    \/ ScoreFirstCall
    \/ ScoreRetryCall
    \/ ScoreGiveUp
    \/ ValidateScores
    \/ WriteScores
    \/ AppendResult
    \/ CatchFailure
    \/ ReturnResults

(***************************************************************************)
(* The CLI ingestion driver, agents/ingest/run.py, over the writers of     *)
(* agents/ingest/notion_writer.py.  A page of the document store is        *)
(* [db, name]; the driver ends by sys.exit(0), sys.exit(1), an exception   *)
(* nobody catches, or by printing the final summary.                       *)
(***************************************************************************)
MaxCliActors == 2   \* longest actors list of an extraction handed to main()

MaxBriefs == 2      \* briefs generated in one session

MaxLogs == 2        \* approvals attempted in one session

CliModes == {"--url", "--text", "u", "t", "other"}

\* str.strip() on the actor names of the model.
StripName(n) == IF n = " Mali" THEN "Mali" ELSE n

CliActorNames == {"", "Mali", " Mali"}

CliActorLists == SeqsUpTo(CliActorNames, MaxCliActors)

CliDatas ==
    {[title |-> "Report", reliability |-> rl, actors |-> as] :
        rl \in {"High", "Other"}, as \in CliActorLists}

NoCliData == [title |-> "", reliability |-> "", actors |-> <<>>]

Page(db, name) == [db |-> db, name |-> name]

\* _find_actor_by_name(client, name): a registry page whose title equals name.
find_actor_by_name(pages, name) ==
    \E i \in 1..Len(pages) : pages[i] = Page("Actors", name)

\* The loop of write_actors over the first actors of the list: actors with
\* an empty stripped name are skipped, a found actor is reported existing,
\* any other is created under the name the extraction gave it.
RECURSIVE write_actors_loop(_, _, _)
write_actors_loop(actors, pages, results) ==
    IF actors = <<>> THEN [pages |-> pages, results |-> results]
    ELSE LET name == StripName(Head(actors))
         IN  IF name = "" THEN write_actors_loop(Tail(actors), pages, results)
             ELSE IF find_actor_by_name(pages, name)
             THEN write_actors_loop(Tail(actors), pages,
                      Append(results, [name |-> name, is_new |-> FALSE]))
             ELSE write_actors_loop(Tail(actors),
                      Append(pages, Page("Actors", Head(actors))),
                      Append(results, [name |-> name, is_new |-> TRUE]))

\* The parameters of write_activity_log, and the keyword arguments main()
\* passes to it.
ActivityLogParams ==
    {"article_title", "screening_score", "screening_verdict",
     "databases_written", "actor_count", "status", "notes"}

ActivityLogRequired == {"article_title"}

CliLogKwargs ==
    {"log_title", "summary", "action_type", "target_database",
     "target_record", "source_material", "confidence", "notes"}

\* Python binds a call's keyword arguments before the body runs: an unknown
\* keyword or a missing required parameter is a TypeError at the call.
Binds(kwargs, params, required) == kwargs \subseteq params /\ required \subseteq kwargs

\* write_activity_log(**kwargs): the body is one try/except Exception, so
\* once the call is bound it returns a page or None; o is what the store did.
write_activity_log(kwargs, o) ==
    IF ~Binds(kwargs, ActivityLogParams, ActivityLogRequired) THEN "TypeError"
    ELSE IF o = "ok" THEN "page" ELSE "None"

CliIdle ==
    /\ c_pc = "idle"
    /\ c_url = FALSE
    /\ c_data = NoCliData
    /\ c_pages = <<>>
    /\ c_results = <<>>
    /\ c_linked = <<>>
    /\ c_end = "idle"
    /\ c_exc = ""
    /\ c_confirm = ""
    /\ c_source_id = 0

CliInit ==
    /\ c_pc = "acquire"
    /\ c_url = FALSE
    /\ c_data = NoCliData
    /\ c_pages \in {<<>>, <<Page("Actors", "Mali")>>}
    /\ c_results = <<>>
    /\ c_linked = <<>>
    /\ c_end = "running"
    /\ c_exc = ""
    /\ c_confirm = ""
    /\ c_source_id = 0

CliRunning(step) == c_pc = step /\ c_end = "running"

\* The run ends at the current step.
CliEnd(how, exc) ==
    /\ c_end' = how
    /\ c_exc' = exc
    /\ UNCHANGED <<c_pc, c_url, c_data, c_pages, c_results, c_linked, c_confirm, c_source_id>>

\* Step 1: the text from --url, --text or the interactive prompt; an
\* empty text ends the run.
CliAcquireText ==
    /\ CliRunning("acquire")
    /\ \E mode \in CliModes, fetched \in BOOLEAN, blank \in BOOLEAN :
          IF mode \in {"--url", "u"}
          THEN IF fetched
               THEN /\ c_pc' = "extract"
                    /\ c_url' = TRUE
                    /\ UNCHANGED <<c_data, c_pages, c_results, c_linked, c_end, c_exc, c_confirm, c_source_id>>
               ELSE CliEnd("exit1", "RuntimeError")
          ELSE IF mode = "other" \/ blank
               THEN CliEnd("exit1", "")
               ELSE /\ c_pc' = "extract"
                    /\ UNCHANGED <<c_url, c_data, c_pages, c_results, c_linked, c_end, c_exc, c_confirm, c_source_id>>
    /\ UNCHANGED notCliVars

\* Step 2: extractor.extract(text); only RuntimeError is caught.
CliExtract ==
    /\ CliRunning("extract")
    /\ \/ \E d \in CliDatas :
             /\ c_data' = d
             /\ c_pc' = "confirm"
             /\ UNCHANGED <<c_url, c_pages, c_results, c_linked, c_end, c_exc, c_confirm, c_source_id>>
       \/ CliEnd("exit1", "RuntimeError")
       \/ CliEnd("uncaught", "APIError")
    /\ UNCHANGED notCliVars

\* confirm = console.input(...).strip().lower() for the answers of the
\* model.
StripLower(answer) == IF answer \in {"Y", " y"} THEN "y" ELSE answer

CliAnswers == {"y", "Y", " y", "n", "yes", ""}

\* if confirm != "y": abort; and a variant that goes on whatever the
\* answer.
Approved_any(confirm) == TRUE
Approved(confirm) == confirm = "y"

\* Step 4: anything but "y" aborts with exit status 0.
CliConfirm ==
    /\ CliRunning("confirm")
    /\ \E answer \in CliAnswers :
          /\ c_confirm' = StripLower(answer)
          /\ IF Approved(c_confirm')
             THEN /\ c_pc' = "source"
                  /\ UNCHANGED <<c_end, c_exc>>
             ELSE /\ c_end' = "exit0"
                  /\ c_exc' = ""
                  /\ c_pc' = c_pc
    /\ UNCHANGED <<c_url, c_data, c_pages, c_results, c_linked, c_source_id>>
    /\ UNCHANGED notCliVars

\* The Event page, with its Key Sources relation; and a variant that
\* leaves the relation empty.
EventPage_unlinked(name, source_page_id) == [db |-> "Events", name |-> name, source |-> 0]
EventPage(name, source_page_id) ==
    [db |-> "Events", name |-> name, source |-> source_page_id]

\* The id of a page is its place in the store.
PageId(pages) == Len(pages)

\* Steps 5 to 7: one page is created; the writer turns APIResponseError
\* into RuntimeError, which main() answers with sys.exit(1); any other
\* exception of the client is not caught.
CliWrite(step, page, next, source_page_id) ==
    /\ CliRunning(step)
    /\ \/ /\ c_pages' = Append(c_pages, page)
          /\ c_pc' = next
          /\ c_source_id' = source_page_id
          /\ UNCHANGED <<c_url, c_data, c_results, c_linked, c_end, c_exc, c_confirm>>
       \/ CliEnd("exit1", "RuntimeError")
       \/ CliEnd("uncaught", "RequestTimeoutError")
    /\ UNCHANGED notCliVars

\* source_page_id, source_page_url = notion_writer.write_source(source_data)
CliWriteSource ==
    CliWrite("source", Page("Sources", c_data.title), "event", PageId(c_pages) + 1)

\* notion_writer.write_event(event_data, source_page_id)
CliWriteEvent ==
    CliWrite("event", EventPage(c_data.title, c_source_id), "intel_feed", c_source_id)

CliWriteIntelFeed ==
    CliWrite("intel_feed", Page("Intel Feeds", c_data.title), "actors", c_source_id)

\* Step 8: write_actors(data["actors"], event_page_id).  The loop fails at
\* the k-th actor's lookup or create, or runs through; the link to the
\* event is written only when there are results.
CliWriteActors ==
    /\ CliRunning("actors")
    /\ \/ \E k \in 1..Len(c_data.actors) :
             /\ StripName(c_data.actors[k]) # ""
             /\ c_pages' = write_actors_loop(SubSeq(c_data.actors, 1, k - 1), c_pages, <<>>).pages
             /\ c_end' = "exit1"
             /\ c_exc' = "RuntimeError"
             /\ UNCHANGED <<c_pc, c_url, c_data, c_results, c_linked, c_confirm,
                            c_source_id>>
       \/ LET done == write_actors_loop(c_data.actors, c_pages, <<>>)
          IN  \E linked \in BOOLEAN :
                 /\ c_pages' = done.pages
                 /\ IF linked \/ done.results = <<>>
                    THEN /\ c_results' = done.results
                         /\ c_linked' = done.results
                         /\ c_pc' = "activity_log"
                         /\ UNCHANGED <<c_end, c_exc, c_confirm, c_source_id>>
                    ELSE /\ c_end' = "exit1"
                         /\ c_exc' = "RuntimeError"
                         /\ UNCHANGED <<c_pc, c_results, c_linked>>
                 /\ UNCHANGED <<c_url, c_data, c_confirm, c_source_id>>
    /\ UNCHANGED notCliVars

\* Steps 9 and 10: write_activity_log(log_title=..., ...) under except
\* RuntimeError, then the final summary; main() returns.
CliLogAndSummary ==
    /\ CliRunning("activity_log")
    /\ \E o \in {"ok", "fail"} :
          LET r == write_activity_log(CliLogKwargs, o)
          IN  IF r = "TypeError" THEN CliEnd("uncaught", "TypeError")
              ELSE /\ c_pages' = IF r = "page"
                                 THEN Append(c_pages, Page("Activity Log", c_data.title))
                                 ELSE c_pages
                   /\ c_end' = "completed"
                   /\ UNCHANGED <<c_pc, c_url, c_data, c_results, c_linked, c_exc, c_confirm,
                                c_source_id>>
    /\ UNCHANGED notCliVars

CliNext ==
    \/ CliAcquireText
    \/ CliExtract
    \/ CliConfirm
    \/ CliWriteSource
    \/ CliWriteEvent
    \/ CliWriteIntelFeed
    \/ CliWriteActors
    \/ CliLogAndSummary

(***************************************************************************)
(* The brief app, agents/brief/app.py: each click reruns the script over   *)
(* the session state; approval saves the brief with save_brief and then    *)
(* logs the run with log_brief_activity of agents/brief/writer.py.         *)
(***************************************************************************)
BriefIdle ==
    /\ b_pc = "off"
    /\ b_gen = 0
    /\ b_text = 0
    /\ b_saved = FALSE
    /\ b_briefs = <<>>
    /\ b_logs = <<>>
    /\ b_status = ""
    /\ b_shown = "none"

\* Session state init: no brief, no saved_url, no preview on the page.
BriefInit ==
    /\ b_pc = "page"
    /\ b_gen = 0
    /\ b_text = 0
    /\ b_saved = FALSE
    /\ b_briefs = <<>>
    /\ b_logs = <<>>
    /\ b_status = ""
    /\ b_shown = "none"

\* st.button(..., disabled=bool(saved_url)): how the Approve button is
\* drawn with the saved_url of the moment it is drawn.
Drawn(saved) == IF saved THEN "disabled" ELSE "enabled"

\* writer.generate_brief under try/except Exception, after brief_text and
\* saved_url are cleared: a new brief (numbered), or none.  shownOnFailure
\* is what the page shows of the Approve button when no brief came.
Synthesize(shownOnFailure) ==
    /\ b_saved' = FALSE
    /\ \/ /\ b_gen < MaxBriefs
          /\ b_gen' = b_gen + 1
          /\ b_text' = b_gen + 1
          /\ b_shown' = Drawn(FALSE)
       \/ /\ b_text' = 0
          /\ b_shown' = shownOnFailure
          /\ UNCHANGED b_gen
    /\ UNCHANGED <<b_pc, b_briefs, b_logs, b_status>>

\* The Generate Brief button: the handler runs above the preview, which
\* is drawn when a brief came.
BriefGenerate ==
    /\ b_pc = "page"
    /\ Synthesize("none")
    /\ UNCHANGED notBriefVars

\* The Regenerate button, on the page with the preview.  The preview is
\* drawn before the handler runs, so when no brief comes the page keeps
\* the buttons as drawn; without a brief in the session the rerun draws
\* no preview and runs no handler.
BriefRegenerate ==
    /\ b_pc = "page"
    /\ b_shown # "none"
    /\ IF b_text # 0
       THEN Synthesize(Drawn(b_saved))
       ELSE /\ b_shown' = "none"
            /\ UNCHANGED <<b_pc, b_gen, b_text, b_saved, b_briefs, b_logs, b_status>>
    /\ UNCHANGED notBriefVars

\* The Refresh data button clears the session state and reruns.
BriefRefresh ==
    /\ b_pc = "page"
    /\ b_text' = 0
    /\ b_saved' = FALSE
    /\ b_shown' = "none"
    /\ UNCHANGED <<b_pc, b_gen, b_briefs, b_logs, b_status>>
    /\ UNCHANGED notBriefVars

\* A click on the Approve button, which the page shows enabled.  The rerun
\* draws the button with the saved_url of now, and the click is answered
\* whatever way the button is drawn: save_brief stores the brief and
\* saved_url is set, or it raises.  Without a brief in the session the
\* rerun draws no preview and runs no handler.
BriefApprove ==
    /\ b_pc = "page"
    /\ b_shown = "enabled"
    /\ Len(b_logs) < MaxLogs
    /\ IF b_text # 0
       THEN /\ b_shown' = Drawn(b_saved)
            /\ \/ /\ b_briefs' = Append(b_briefs, b_text)
                  /\ b_saved' = TRUE
                  /\ b_status' = "Completed"
               \/ /\ b_status' = "Failed"
                  /\ UNCHANGED <<b_briefs, b_saved>>
            /\ b_pc' = "log"
            /\ UNCHANGED <<b_gen, b_text, b_logs>>
       ELSE /\ b_shown' = "none"
            /\ UNCHANGED <<b_pc, b_gen, b_text, b_saved, b_briefs, b_logs, b_status>>
    /\ UNCHANGED notBriefVars

\* log_brief_activity(status): returns at once when the log database is
\* not configured; the post and whatever it raises stay inside
\* try/except Exception.  The script then runs to its end.
BriefLogActivity ==
    /\ b_pc = "log"
    /\ \E o \in {"unconfigured", "posted", "raised"} :
          b_logs' = Append(b_logs, [status |-> b_status, outcome |-> o])
    /\ b_pc' = "page"
    /\ b_status' = ""
    /\ UNCHANGED <<b_gen, b_text, b_saved, b_briefs, b_shown>>
    /\ UNCHANGED notBriefVars

BriefNext ==
    \/ BriefGenerate
    \/ BriefRegenerate
    \/ BriefRefresh
    \/ BriefApprove
    \/ BriefLogActivity

(***************************************************************************)
(* The two stage functions that issue one text-generation call inside      *)
(* try/except anthropic.APIError: screen of agents/ingest/screener.py and  *)
(* generate_brief of agents/brief/writer.py.                               *)
(***************************************************************************)
\* The text of the PDF: nothing but whitespace, 150 characters of text,
\* at most max_chars characters, or more.
PdfTexts == {"blank", "short", "text", "long"}

StageIdle ==
    /\ f_pc = "idle"
    /\ f_text = ""
    /\ f_calls = <<>>
    /\ f_err = ""
    /\ g_pc = "idle"
    /\ g_calls = 0
    /\ g_err = ""

ScreenFnInit ==
    /\ f_pc = "start"
    /\ f_text = ""
    /\ f_calls = <<>>
    /\ f_err = ""
    /\ g_pc = "idle"
    /\ g_calls = 0
    /\ g_err = ""

GenerateBriefInit ==
    /\ f_pc = "idle"
    /\ f_text = ""
    /\ f_calls = <<>>
    /\ f_err = ""
    /\ g_pc = "start"
    /\ g_calls = 0
    /\ g_err = ""

\* not text.strip(): the text is empty or whitespace only; and a variant
\* that lets every text pass.
IsBlank_never(t) == FALSE
IsBlank(t) == t = "blank"

\* text = extract_text_from_pdf(pdf_path); a blank text is a ValueError,
\* and what pdfplumber raises on a file it cannot read is not caught.
ScreenExtractText ==
    /\ f_pc = "start"
    /\ \/ \E t \in PdfTexts :
             /\ f_text' = t
             /\ IF IsBlank(t)
                THEN f_pc' = "raised" /\ f_err' = "ValueError"
                ELSE f_pc' = "text" /\ f_err' = f_err
       \/ /\ f_pc' = "raised"
          /\ f_err' = "PDFSyntaxError"
          /\ f_text' = f_text
    /\ UNCHANGED <<f_calls, g_pc, g_calls, g_err>>
    /\ UNCHANGED notStageVars

\* client.messages.create(...) under except anthropic.APIError, the text
\* cut to max_chars; the response's text, stripped, is what
\* _parse_and_validate is given.
ScreenCallModel ==
    /\ f_pc = "text"
    /\ f_calls' = Append(f_calls, [truncated |-> f_text = "long"])
    /\ \/ /\ f_pc' = "raised"
          /\ f_err' = "RuntimeError"
          /\ UNCHANGED screenVars
       \/ \E in \in ScreenInputs :
             /\ raw' = Strip(in.raw)
             /\ data' = in.data
             /\ result' = NoResult
             /\ spc' = "ready"
             /\ f_pc' = "called"
             /\ f_err' = f_err
    /\ UNCHANGED <<f_text, g_pc, g_calls, g_err>>
    /\ UNCHANGED <<extractVars, scoreVars, cliVars, briefVars, textVars, actorsVars, queryVars,
                   appVars>>

\* return _parse_and_validate(raw): its result, or its exception as it is.
ScreenFnReturn ==
    /\ f_pc = "called"
    /\ spc \in {"returned", "raised"}
    /\ f_pc' = spc
    /\ f_err' = result.err
    /\ UNCHANGED <<f_text, f_calls, g_pc, g_calls, g_err>>
    /\ UNCHANGED notStageVars

ScreenFnNext ==
    \/ ScreenExtractText
    \/ ScreenCallModel
    \/ ParseAndValidate
    \/ ScreenFnReturn

\* generate_brief: one call under except anthropic.APIError; the text of
\* the response is returned as it is.
GenerateBrief ==
    /\ g_pc = "start"
    /\ g_calls' = g_calls + 1
    /\ \/ g_pc' = "raised" /\ g_err' = "RuntimeError"
       \/ g_pc' = "returned" /\ g_err' = g_err
    /\ UNCHANGED <<f_pc, f_text, f_calls, f_err>>
    /\ UNCHANGED notStageVars

(***************************************************************************)
(* The text the writers send to the document store: _rich_text of          *)
(* agents/ingest/notion_writer.py, agents/score/score_agent.py and         *)
(* agents/brief/writer.py, and _brief_text_to_blocks of the brief writer.  *)
(* A text is its length; a content element is the slice [from, to) of the  *)
(* text (or of the line) it holds.                                         *)
(***************************************************************************)
ChunkLimit == 2000

MaxChunksIn == 3    \* the longest text is about MaxChunksIn chunks long

MaxLines == 2       \* lines of a brief

TextLens ==
    {n \in {k * ChunkLimit + d : k \in 0..MaxChunksIn, d \in {-1, 0, 1, 700}} : n >= 0}

\* [text[i:i + 2000] for i in range(i, max(len(text), 1), 2000)]
RECURSIVE Chunks(_, _)
Chunks(i, n) ==
    IF i >= Max(n, 1) THEN <<>>
    ELSE <<[from |-> i, to |-> Min(i + ChunkLimit, n)]>> \o Chunks(i + ChunkLimit, n)

\* _rich_text(text), the same in the three writers
rich_text(n) == Chunks(0, n)

\* A line of a brief, stripped: blank, a heading "## ..." whose text has
\* len characters, or a paragraph made of parts, a bold part being
\* "**...**" with its four marker characters counted in len.
BlankLine == [kind |-> "blank", len |-> 0, parts |-> <<>>]
HeadingLine(n) == [kind |-> "heading", len |-> n, parts |-> <<>>]
Paragraph(ps) == [kind |-> "paragraph", len |-> 0, parts |-> ps]
Part(b, n) == [bold |-> b, len |-> n]

PartLens == {5, ChunkLimit, ChunkLimit + 1, ChunkLimit + 5}

LineVals ==
    {BlankLine}
        \cup {HeadingLine(n) : n \in PartLens}
        \cup {Paragraph(<<Part(FALSE, n)>>) : n \in PartLens}
        \cup {Paragraph(<<Part(FALSE, 5), Part(TRUE, n)>>) : n \in PartLens}

\* _parse_inline_bold(text): one segment per non-empty part, a bold part
\* without its markers.
parse_inline_bold(ps) ==
    [i \in 1..Len(ps) |->
        IF ps[i].bold THEN [from |-> 2, to |-> ps[i].len - 2]
        ELSE [from |-> 0, to |-> ps[i].len]]

\* The rich_text elements of the block a line becomes; a blank line
\* becomes no block.
LineElements(line) ==
    IF line.kind = "blank" THEN <<>>
    ELSE IF line.kind = "heading" THEN <<[from |-> 0, to |-> line.len]>>
    ELSE parse_inline_bold(line.parts)

\* _brief_text_to_blocks(text): the elements of all blocks, in order
RECURSIVE brief_text_to_blocks(_)
brief_text_to_blocks(lines) ==
    IF lines = <<>> THEN <<>>
    ELSE LineElements(Head(lines)) \o brief_text_to_blocks(Tail(lines))

RichTextFns == {"notion_writer._rich_text", "score_agent._rich_text", "writer._rich_text"}

TextInputs ==
    {[fn |-> f, text |-> [len |-> n, lines |-> <<>>]] : f \in RichTextFns, n \in TextLens}
        \cup {[fn |-> "writer._brief_text_to_blocks", text |-> [len |-> 0, lines |-> ls]] :
                ls \in SeqsUpTo(LineVals, MaxLines)}

TextIdle ==
    /\ t_pc = "idle"
    /\ t_fn = ""
    /\ t_in = [len |-> 0, lines |-> <<>>]
    /\ t_out = <<>>

TextInit ==
    /\ t_pc = "ready"
    /\ \E in \in TextInputs : t_fn = in.fn /\ t_in = in.text
    /\ t_out = <<>>

\* The writer builds the elements it sends.
BuildText ==
    /\ t_pc = "ready"
    /\ t_out' = IF t_fn \in RichTextFns THEN rich_text(t_in.len)
                ELSE brief_text_to_blocks(t_in.lines)
    /\ t_pc' = "sent"
    /\ UNCHANGED <<t_fn, t_in>>
    /\ UNCHANGED notTextVars

(***************************************************************************)
(* write_actors of agents/ingest/notion_writer.py, one store request per   *)
(* step, so that invocations can overlap.  The loop's lookup uses the      *)
(* stripped name; _create_actor stores the name as the extraction gave it. *)
(***************************************************************************)
MaxInvocations == 2

Invocations == 1..MaxInvocations

ActorLists ==
    { <<"Mali">>, <<" Mali">>, <<"", "Mali">>, <<"Mali", "Chad">>, <<"Chad", "Mali">> }

NotStarted == [pc |-> "idle", actors |-> <<>>, i |-> 1, results |-> <<>>]

\* client.pages.create in _create_actor: a page titled with the actor's name.
CreateRecord_ifAbsent(reg, name) ==
    IF find_actor_by_name(reg, name) THEN reg ELSE Append(reg, Page("Actors", name))

CreateRecord(reg, name) == Append(reg, Page("Actors", name))

ActorsIdle ==
    /\ a_reg = <<>>
    /\ a_inv = [p \in Invocations |-> NotStarted]

ActorsInit ==
    /\ a_reg \in {<<>>, <<Page("Actors", "Mali")>>}
    /\ a_inv = [p \in Invocations |-> NotStarted]

InFlight(p) == a_inv[p].pc \in {"lookup", "create"}

ActorsStep(p, pc, i, results) ==
    a_inv' = [a_inv EXCEPT ![p] = [pc |-> pc, actors |-> a_inv[p].actors,
                                   i |-> i, results |-> results]]

\* An invocation is made, whatever the others are doing.
ActorsBegin(p) ==
    /\ a_inv[p].pc = "idle"
    /\ \E as \in ActorLists :
          a_inv' = [a_inv EXCEPT ![p] = [pc |-> "lookup", actors |-> as,
                                         i |-> 1, results |-> <<>>]]
    /\ UNCHANGED a_reg
    /\ UNCHANGED notActorsVars

\* An invocation is made while no other is in flight.
ActorsBeginAlone(p) ==
    /\ \A q \in Invocations : ~InFlight(q)
    /\ ActorsBegin(p)

\* for actor in actors: a blank name is skipped; _find_actor_by_name
\* raises RuntimeError, returns the page it found, or None.
ActorsLookup(p) ==
    /\ a_inv[p].pc = "lookup"
    /\ a_inv[p].i <= Len(a_inv[p].actors)
    /\ LET st   == a_inv[p]
           name == StripName(st.actors[st.i])
       IN  IF name = "" THEN ActorsStep(p, "lookup", st.i + 1, st.results)
           ELSE \/ ActorsStep(p, "raised", st.i, st.results)
                \/ IF find_actor_by_name(a_reg, name)
                   THEN ActorsStep(p, "lookup", st.i + 1,
                            Append(st.results, [name |-> name, is_new |-> FALSE]))
                   ELSE ActorsStep(p, "create", st.i, st.results)
    /\ UNCHANGED a_reg
    /\ UNCHANGED notActorsVars

\* _create_actor(client, actor) after a lookup that found nothing.
ActorsCreate(p) ==
    /\ a_inv[p].pc = "create"
    /\ LET st == a_inv[p]
       IN  \/ /\ ActorsStep(p, "raised", st.i, st.results)
              /\ UNCHANGED a_reg
           \/ /\ a_reg' = CreateRecord(a_reg, st.actors[st.i])
              /\ ActorsStep(p, "lookup", st.i + 1,
                     Append(st.results,
                            [name |-> StripName(st.actors[st.i]), is_new |-> TRUE]))
    /\ UNCHANGED notActorsVars

\* After the loop: the resolved pages are linked to the event when there
\* are any, and the results are returned.
ActorsLink(p) ==
    /\ a_inv[p].pc = "lookup"
    /\ a_inv[p].i > Len(a_inv[p].actors)
    /\ LET st == a_inv[p]
       IN  \/ ActorsStep(p, "returned", st.i, st.results)
           \/ /\ st.results # <<>>
              /\ ActorsStep(p, "raised", st.i, st.results)
    /\ UNCHANGED a_reg
    /\ UNCHANGED notActorsVars

ActorsRun == \E p \in Invocations : ActorsLookup(p) \/ ActorsCreate(p) \/ ActorsLink(p)

\* Invocations that may overlap, and invocations one after the other.
ActorsNext == (\E p \in Invocations : ActorsBegin(p)) \/ ActorsRun

ActorsSeqNext == (\E p \in Invocations : ActorsBeginAlone(p)) \/ ActorsRun

(***************************************************************************)
(* Database queries: _query_database of agents/brief/fetcher.py and        *)
(* _fetch_linked_events of agents/score/notion_reader.py.  The store       *)
(* hands out the matching records page by page: a response holds one       *)
(* page, has_more, and next_cursor naming the following page.              *)
(***************************************************************************)
MaxResults == 5     \* records matching a query

MaxPageSize == 3    \* records the store puts in one page

QueryFns == {"_query_database", "_fetch_linked_events"}

\* Records first..n in pages of size records; no record at all is one
\* empty page.
RECURSIVE Paginate(_, _, _)
Paginate(first, n, size) ==
    IF first + size > n THEN <<[i \in 1..(n - first + 1) |-> first + i - 1]>>
    ELSE <<[i \in 1..size |-> first + i - 1]>> \o Paginate(first + size, n, size)

\* What the store answers to a request with this start_cursor.
StoreResponse(pages, cursor) ==
    LET k == IF cursor = 0 THEN 1 ELSE cursor
    IN  [results |-> pages[k],
         has_more |-> k < Len(pages),
         next_cursor |-> IF k < Len(pages) THEN k + 1 ELSE 0]

QueryIdle ==
    /\ q_pc = "idle"
    /\ q_fn = ""
    /\ q_pages = <<>>
    /\ q_cursor = 0
    /\ q_requests = <<>>
    /\ q_results = <<>>

QueryInit ==
    /\ q_pc = "request"
    /\ q_fn \in QueryFns
    /\ \E n \in 0..MaxResults, size \in 1..MaxPageSize : q_pages = Paginate(1, n, size)
    /\ q_cursor = 0
    /\ q_requests = <<>>
    /\ q_results = <<>>

\* One turn of the while loop of _query_database: the request, sent with
\* start_cursor when there is one, raises or is answered; the results are
\* appended and the loop goes on while has_more and next_cursor are set.
QueryDatabaseRequest ==
    /\ q_pc = "request"
    /\ q_fn = "_query_database"
    /\ q_requests' = Append(q_requests, q_cursor)
    /\ \/ /\ q_pc' = "raised"
          /\ UNCHANGED <<q_cursor, q_results>>
       \/ LET d == StoreResponse(q_pages, q_cursor)
          IN  /\ q_results' = q_results \o d.results
              /\ IF d.has_more /\ d.next_cursor # 0
                 THEN q_cursor' = d.next_cursor /\ q_pc' = "request"
                 ELSE q_cursor' = q_cursor /\ q_pc' = "returned"
    /\ UNCHANGED <<q_fn, q_pages>>
    /\ UNCHANGED notQueryVars

\* _fetch_linked_events: one request without a cursor; the events of the
\* response are returned.
FetchLinkedEvents ==
    /\ q_pc = "request"
    /\ q_fn = "_fetch_linked_events"
    /\ q_requests' = Append(q_requests, 0)
    /\ \/ /\ q_pc' = "raised"
          /\ UNCHANGED q_results
       \/ /\ q_results' = StoreResponse(q_pages, 0).results
          /\ q_pc' = "returned"
    /\ UNCHANGED <<q_fn, q_pages, q_cursor>>
    /\ UNCHANGED notQueryVars

QueryNext == QueryDatabaseRequest \/ FetchLinkedEvents

(***************************************************************************)
(* The screener app, app.py.  Every user event reruns the script from the  *)
(* top over the session state: the upload is checked, the document is      *)
(* screened unless a result is kept, the two buttons are answered, and     *)
(* the ingestion outcome is shown.  One action is one script run (with     *)
(* the rerun that st.rerun() asks for).                                    *)
(***************************************************************************)
MaxIngestions == 2   \* executions of the ingestion chain in one session

Contents == {"A", "B"}

AppActorLists == {<<>>, <<"Mali">>, <<" Mali">>}

\* The session state as a record of the keys the script reads.
Session(hash, screen, status) == [hash |-> hash, screen |-> screen, status |-> status]

\* _reset_state(): every key is popped.
reset_state == Session("none", "absent", "absent")

\* The script from its top to the buttons, with the upload and with the
\* outcome of screen() should it be called: without an upload the state is
\* reset and the script stops; a hash that differs resets the state and
\* keeps the new hash; screen() is called when no result is kept, and its
\* failure stops the script.
ScriptTop(ss, upload, screened) ==
    IF upload = "none" THEN reset_state
    ELSE LET s1 == IF ss.hash # upload THEN [reset_state EXCEPT !.hash = upload] ELSE ss
         IN  IF s1.screen = "absent" /\ screened
             THEN [s1 EXCEPT !.screen = "result"]
             ELSE s1

\* The buttons are on the page: the latest run got past the screening.
ButtonsShown == p_upload # "none" /\ p_hash = p_upload /\ p_screen = "result"

\* The stages of the chain inside the try block, in call order.
ChainStages == <<"text", "extract", "source", "event", "intel_feed", "actors", "score">>

StageIndex(stage) == CHOOSE k \in 1..Len(ChainStages) : ChainStages[k] = stage

\* An update call of score_actors on an actor page.
UpdateCall(name) == [db |-> "Actors", name |-> name, op |-> "update"]

\* ingestion_status after the chain: set in the try block and in the
\* except block alike; and a variant that keeps no status of a failure.
StatusAfter_onlySuccess(failed) == IF failed = "" THEN "success" ELSE "absent"
StatusAfter(failed) == IF failed = "" THEN "success" ELSE "failed"

\* The chain of the try block on a store: failAt is the stage that raises
\* ("" when none does), actors the actors of the extraction, scored whether
\* score_actors got its scores written.  Each stage is called when the one
\* before it returned; score_actors is called when write_actors returned
\* results, and it raises nothing.
Chain(store, failAt, actors, scored) ==
    LET last    == IF failAt = "" THEN Len(ChainStages) ELSE StageIndex(failAt)
        ran(st) == StageIndex(st) < last \/ (StageIndex(st) = last /\ failAt = "")
        s1      == IF ran("source") THEN Append(store, Page("Sources", "Report")) ELSE store
        src     == PageId(s1)
        s2      == IF ran("event") THEN Append(s1, EventPage("Report", src)) ELSE s1
        s3      == IF ran("intel_feed") THEN Append(s2, Page("Intel Feeds", "Report")) ELSE s2
        done    == write_actors_loop(actors, s3, <<>>)
        s4      == IF ran("actors") THEN done.pages ELSE s3
        results == IF ran("actors") THEN done.results ELSE <<>>
        called  == IF failAt = "" /\ results = <<>>
                   THEN SubSeq(ChainStages, 1, Len(ChainStages) - 1)
                   ELSE SubSeq(ChainStages, 1, last)
        s5      == IF failAt = "" /\ results # <<>> /\ scored
                   THEN s4 \o [i \in 1..Len(results) |-> UpdateCall(results[i].name)]
                   ELSE s4
    IN  [store |-> s5, stages |-> called, failed |-> failAt]

AppIdle ==
    /\ p_event = "off"
    /\ p_upload = "none"
    /\ p_hash = "none"
    /\ p_screen = "absent"
    /\ p_status = "absent"
    /\ p_store = <<>>
    /\ p_stages = <<>>
    /\ p_failed = ""
    /\ p_chains = 0

\* The page was opened: the script ran once without an upload.
AppInit ==
    /\ p_event = "open"
    /\ p_upload = "none"
    /\ p_hash = "none"
    /\ p_screen = "absent"
    /\ p_status = "absent"
    /\ p_store \in {<<>>, <<Page("Actors", "Mali")>>}
    /\ p_stages = <<>>
    /\ p_failed = ""
    /\ p_chains = 0

AppSession == Session(p_hash, p_screen, p_status)

\* The session state a script run leaves.
AppKeep(ss) ==
    /\ p_hash' = ss.hash
    /\ p_screen' = ss.screen
    /\ p_status' = ss.status

\* A file is dropped on the uploader, or replaces the one there.
AppUpload ==
    /\ p_event # "off"
    /\ \E content \in Contents, screened \in BOOLEAN :
          /\ p_upload' = content
          /\ AppKeep(ScriptTop(AppSession, content, screened))
    /\ p_event' = "upload"
    /\ UNCHANGED <<p_store, p_stages, p_failed, p_chains>>
    /\ UNCHANGED notAppVars

\* The upload is removed: uploaded_file is None.
AppRemove ==
    /\ p_event # "off"
    /\ p_upload # "none"
    /\ p_upload' = "none"
    /\ AppKeep(ScriptTop(AppSession, "none", FALSE))
    /\ p_event' = "remove"
    /\ UNCHANGED <<p_store, p_stages, p_failed, p_chains>>
    /\ UNCHANGED notAppVars

\* Discard: _reset_state() and st.rerun(); the rerun finds the upload
\* still there and screens it again.
AppDiscard ==
    /\ ButtonsShown
    /\ \E screened \in BOOLEAN : AppKeep(ScriptTop(reset_state, p_upload, screened))
    /\ p_event' = "discard"
    /\ UNCHANGED <<p_upload, p_store, p_stages, p_failed, p_chains>>
    /\ UNCHANGED notAppVars

\* Run Ingestion: the chain is executed when no ingestion_status is kept,
\* and its outcome is kept as ingestion_status.
AppRun ==
    /\ ButtonsShown
    /\ p_status # "absent" \/ p_chains < MaxIngestions
    /\ IF p_status = "absent"
       THEN \E failAt \in {""} \cup {ChainStages[k] : k \in 1..(Len(ChainStages) - 1)},
               actors \in AppActorLists, scored \in BOOLEAN :
               LET c == Chain(p_store, failAt, actors, scored)
               IN  /\ p_store' = c.store
                   /\ p_stages' = c.stages
                   /\ p_failed' = c.failed
                   /\ p_status' = StatusAfter(c.failed)
                   /\ p_chains' = p_chains + 1
       ELSE UNCHANGED <<p_store, p_stages, p_failed, p_status, p_chains>>
    /\ p_event' = "run"
    /\ UNCHANGED <<p_upload, p_hash, p_screen>>
    /\ UNCHANGED notAppVars

AppNext == AppUpload \/ AppRemove \/ AppDiscard \/ AppRun

(***************************************************************************)
(* Specifications: one per component, the others idle.                     *)
(***************************************************************************)
vars ==
    <<screenVars, extractVars, scoreVars, cliVars, briefVars, stageVars, textVars, actorsVars, queryVars, appVars>>

\* The components added after the first five, idle.
LaterIdle == AppIdle /\ QueryIdle /\ ActorsIdle /\ TextIdle /\ StageIdle

InitScreen == ScreenInit /\ ExtractIdle /\ ScoreIdle /\ CliIdle /\ BriefIdle /\ LaterIdle
SpecScreen == InitScreen /\ [][ParseAndValidate]_vars

InitExtract == ExtractInit /\ ScreenIdle /\ ScoreIdle /\ CliIdle /\ BriefIdle /\ LaterIdle
SpecExtract == InitExtract /\ [][ExtractNext]_vars

InitScore == ScoreInit /\ ScreenIdle /\ ExtractIdle /\ CliIdle /\ BriefIdle /\ LaterIdle
SpecScore == InitScore /\ [][ScoreNext]_vars

\* The two operations with a bounded retry: extract and score_actor.
InitRetry ==
    /\ ScreenIdle /\ CliIdle /\ BriefIdle /\ LaterIdle
    /\ (ExtractInit /\ ScoreIdle) \/ (ScoreInit /\ ExtractIdle)
RetryNext == ExtractNext \/ ScoreNext
SpecRetry == InitRetry /\ [][RetryNext]_vars

\* The two callers of an activity-log write: the CLI driver and the brief app.
InitLog ==
    /\ ScreenIdle /\ ExtractIdle /\ ScoreIdle /\ LaterIdle
    /\ (CliInit /\ BriefIdle) \/ (BriefInit /\ CliIdle)
LogNext == CliNext \/ BriefNext
SpecLog == InitLog /\ [][LogNext]_vars

\* The four stage functions that call the text-generation service.
InitStages ==
    /\ CliIdle /\ BriefIdle /\ TextIdle /\ ActorsIdle /\ QueryIdle /\ AppIdle
    /\ \/ ScreenFnInit /\ ScreenIdle /\ ExtractIdle /\ ScoreIdle
       \/ GenerateBriefInit /\ ScreenIdle /\ ExtractIdle /\ ScoreIdle
       \/ StageIdle /\ ScreenIdle /\ ExtractInit /\ ScoreIdle
       \/ StageIdle /\ ScreenIdle /\ ExtractIdle /\ ScoreInit
StagesNext == ScreenFnNext \/ GenerateBrief \/ ExtractNext \/ ScoreNext
SpecStages == InitStages /\ [][StagesNext]_vars

\* The text writers.
InitText ==
    /\ ScreenIdle /\ ExtractIdle /\ ScoreIdle /\ CliIdle /\ BriefIdle
    /\ StageIdle /\ TextInit /\ ActorsIdle /\ QueryIdle /\ AppIdle
SpecText == InitText /\ [][BuildText]_vars

\* write_actors, overlapping and not.
InitActors ==
    /\ ScreenIdle /\ ExtractIdle /\ ScoreIdle /\ CliIdle /\ BriefIdle
    /\ StageIdle /\ TextIdle /\ ActorsInit /\ QueryIdle /\ AppIdle
SpecActors == InitActors /\ [][ActorsNext]_vars
SpecActorsSeq == InitActors /\ [][ActorsSeqNext]_vars

\* The database queries.
InitQuery ==
    /\ ScreenIdle /\ ExtractIdle /\ ScoreIdle /\ CliIdle /\ BriefIdle
    /\ StageIdle /\ TextIdle /\ ActorsIdle /\ QueryInit /\ AppIdle
SpecQuery == InitQuery /\ [][QueryNext]_vars

\* The two ingestion drivers: the CLI main and the screener app.
InitDrivers ==
    /\ ScreenIdle /\ ExtractIdle /\ ScoreIdle /\ BriefIdle
    /\ StageIdle /\ TextIdle /\ ActorsIdle /\ QueryIdle
    /\ (CliInit /\ AppIdle) \/ (AppInit /\ CliIdle)
DriversNext == CliNext \/ AppNext
SpecDrivers == InitDrivers /\ [][DriversNext]_vars

(***************************************************************************)
(* Claims about the validator, checked under SpecScreen.                   *)
(***************************************************************************)
\* The tier of a score, written out from the rubric's thresholds.
IsTierOf(verdict, score) ==
    /\ verdict = "Strong Match"   <=> score >= 70
    /\ verdict = "Moderate Match" <=> (40 <= score /\ score < 70)
    /\ verdict = "Weak Match"     <=> (10 <= score /\ score < 40)
    /\ verdict = "Not Relevant"   <=> score < 10

\* C1: every result the validator returns has the verdict that is the tier
\* of its clamped score (Strong Match iff score >= 70, Moderate Match iff
\* 40 <= score < 70, Weak Match iff 10 <= score < 40, Not Relevant iff
\* score < 10), whatever verdict label the raw response carried.
C1_VerdictIsTierOfScore ==
    spc = "returned" => IsTierOf(result.verdict, result.score)

\* C2: when the raw response has no verdict field, the returned verdict is
\* derived from the clamped score; a fenced response with score 85 and no
\* verdict yields "Strong Match".
C2_MissingVerdictDerived ==
    (spc = "returned" /\ data.verdict.t = "absent") =>
        /\ IsTierOf(result.verdict, result.score)
        /\ (data.score = IntV(85) => result.verdict = "Strong Match")

\* C5: the validator fails only for an unparsable JSON body: whenever the
\* outermost brace span of the raw text parses as a JSON object it returns
\* a result, whatever the fields hold, and absent fields come back as the
\* empty string / the empty list.
C5_FailsOnlyOnUnparsableBody ==
    /\ (spc = "raised" => ~ParseJsonOk(raw))
    /\ (spc = "returned" =>
          /\ (data.reasoning.t = "absent" => result.reasoning = "")
          /\ (data.affected_databases.t = "absent" => result.affected_databases = <<>>)
          /\ (data.key_signals.t = "absent" => result.key_signals = <<>>))

\* The sum of the five validated dimension scores.
DimSum(m) ==
    m["sovereignty_gap_centrality"] + m["actor_relevance"] + m["event_actionability"]
        + m["geographic_scope"] + m["source_quality"]

Clamp100(n) == IF n < 0 THEN 0 ELSE IF n > 100 THEN 100 ELSE n

RawScoreNumber(v) ==
    CASE v.t = "absent" -> 0
      [] v.t = "float"  -> CHOOSE k \in -200..200 :
                              IF v.n >= 0 THEN 10 * k <= v.n /\ v.n < 10 * k + 10
                                          ELSE 10 * k - 10 < v.n /\ v.n <= 10 * k
      [] OTHER          -> v.n

C3_EnumCoercionTotal ==
    x_pc = "returned" =>
        /\ x_out.source.source_type \in VALID_SOURCE_TYPES
        /\ x_out.source.reliability \in VALID_RELIABILITY
        /\ x_out.event.event_type \in VALID_EVENT_TYPES
        /\ x_out.event.pf_signal \in VALID_PF_SIGNAL_IMPACTS
        /\ \A i \in 1..Len(x_out.actors) : x_out.actors[i].actor_type \in VALID_ACTOR_TYPES

\* A raw field value that is not a member of the given valid set.
NotValid(v, valid_set) == ~(v.t = "str" /\ v.s \in valid_set)

\* C4: each invalid enum value is replaced by the field's documented
\* default: source_type and event_type by "Other", reliability by "Medium",
\* pf_signal by "Indirect", actor_type by "Non-State".
C4_InvalidBecomesDocumentedDefault ==
    x_pc = "returned" =>
        /\ NotValid(x_data.source_type, VALID_SOURCE_TYPES) =>
              x_out.source.source_type = "Other"
        /\ NotValid(x_data.event_type, VALID_EVENT_TYPES) =>
              x_out.event.event_type = "Other"
        /\ NotValid(x_data.reliability, VALID_RELIABILITY) =>
              x_out.source.reliability = "Medium"
        /\ NotValid(x_data.pf_signal, VALID_PF_SIGNAL_IMPACTS) =>
              x_out.event.pf_signal = "Indirect"
        /\ LET dicts == SelectSeq(x_data.actors, IsDict)
           IN  \A i \in 1..Len(dicts) :
                  NotValid(dicts[i].actor_type, VALID_ACTOR_TYPES) =>
                      x_out.actors[i].actor_type = "Non-State"

(***************************************************************************)
(* Claims about the score agent, checked under SpecScore.                  *)
(***************************************************************************)
\* The latest response of the running score_actor parsed as a JSON object.
ScoresParsed ==
    /\ s_pc \in {"first", "second"}
    /\ Len(s_resps) = Len(s_calls)
    /\ ParseJsonOk(s_resps[Len(s_resps)])

\* A parsed score that is not an integer in [0,100].
NotInt0To100(v) == ~(v.t \in {"int", "bool"} /\ v.n \in 0..100)

\* C7: when the parsed authority_score or reach_score is not an integer in
\* [0,100], the next step of score_actor raises a ValueError, issues no
\* update to the store and makes no further call to the model; the step
\* after the raise is the caller's, again without an update or a call.
C7_InvalidScoreRaisesBeforeWrite ==
    [][/\ (ScoresParsed /\ (NotInt0To100(s_scores.authority_score)
                            \/ NotInt0To100(s_scores.reach_score))) =>
            (/\ s_pc' = "raised"
             /\ s_err'.class = "ValueError"
             /\ s_updates' = s_updates
             /\ s_calls' = s_calls)
       /\ (s_pc = "raised" /\ s_err.class = "ValueError") =>
            (s_updates' = s_updates /\ s_calls' = <<>> /\ s_pc' = "loop")]_vars

\* score_actor raised a ValueError for authority_score = 150, the store
\* untouched.
C7_Witness ==
    /\ s_pc = "raised"
    /\ s_err.class = "ValueError"
    /\ s_scores.authority_score = IntV(150)
    /\ s_updates = <<>>
    /\ Len(s_calls) = 1

\* C8: score_actors returns exactly one record per input entity, in input
\* order: success with the scores, or failure with the entity id and the
\* error string; a failure while scoring an entity is recorded and the loop
\* moves on to the next entity, so the records kept always match the
\* entities handled so far.
C8_OneResultPerEntity ==
    /\ [](/\ s_pc = "done" =>
                /\ Len(s_results) = Len(s_ids)
                /\ \A i \in 1..Len(s_ids) :
                      /\ s_results[i].actor_page_id = s_ids[i]
                      /\ s_results[i].success =>
                            /\ s_results[i].authority_score.t \in {"int", "bool"}
                            /\ s_results[i].reach_score.t \in {"int", "bool"}
                            /\ s_results[i].error = "None"
                      /\ ~s_results[i].success =>
                            /\ s_results[i].actor_name = s_ids[i]
                            /\ s_results[i].error \notin {"", "None"}
                            /\ s_results[i].authority_score = Null
          /\ s_pc \notin {"done", "idle"} =>
                (s_i <= Len(s_ids) + 1 /\ Len(s_results) = s_i - 1))
    /\ [][s_pc = "raised" =>
            /\ s_pc' = "loop"
            /\ s_i' = s_i + 1
            /\ Len(s_results') = s_i
            /\ s_results'[s_i].actor_page_id = s_ids[s_i]
            /\ ~s_results'[s_i].success
            /\ s_results'[s_i].error = s_err.msg]_vars

\* A batch of two returned after its first entity failed and its second
\* was scored.
C8_Witness ==
    /\ s_pc = "done"
    /\ Len(s_ids) = 2
    /\ ~s_results[1].success
    /\ s_results[2].success

(***************************************************************************)
(* The bounded retry of extract and score_actor, checked under SpecRetry.  *)
(***************************************************************************)
\* The retry discipline of one invocation: pc its position, calls its
\* text-generation calls, resps the responses received, class the class of
\* the exception it raised.
RetryDiscipline(pc, calls, resps, class) ==
    /\ Len(calls) <= 2
    /\ Len(calls) >= 1 => ~calls[1].strict
    /\ Len(calls) = 2 =>
          /\ calls[2].strict
          /\ Len(resps) >= 1
          /\ ~ParseJsonOk(resps[1])
    /\ (Len(resps) >= 1 /\ ~ParseJsonOk(resps[1]) /\ pc # "first") => Len(calls) = 2
    /\ (Len(resps) = 2 /\ ~ParseJsonOk(resps[2]) /\ pc # "second") =>
          (pc = "raised" /\ class = "RuntimeError")
    /\ pc \in {"returned", "validated"} => ParseJsonOk(resps[Len(resps)])

\* C9: extract and score_actor call the text-generation service at most
\* twice per invocation; the second call is made exactly when the first
\* response cannot be parsed as a JSON object, and it carries the strict
\* suffix; when the second response is unparsable too a RuntimeError is
\* raised and no further call is made.
C9_AtMostOneRetry ==
    /\ RetryDiscipline(x_pc, x_calls, x_resps, x_err.class)
    /\ RetryDiscipline(s_pc, s_calls, s_resps, s_err.class)

\* extract gave up after two unparsable responses.
C9_Witness ==
    /\ x_pc = "raised"
    /\ x_err.class = "RuntimeError"
    /\ Len(x_calls) = 2
    /\ ~ParseJsonOk(x_resps[1])
    /\ ~ParseJsonOk(x_resps[2])

(***************************************************************************)
(* Claims about the activity log, checked under SpecLog.                   *)
(***************************************************************************)
\* C10: an activity-log write never aborts its parent operation: in the CLI
\* driver no run ends at the activity-log step other than by completing
\* with the final summary, and in the brief app the approve handler always
\* comes back from its log call, whatever the logging did.
C10_ActivityLogNeverAbortsParent ==
    /\ [](c_pc = "activity_log" => c_end \in {"running", "completed"})
    /\ [][b_pc = "log" => b_pc' = "page"]_vars

(***************************************************************************)
(* Claims about the stage functions, checked under SpecStages.             *)
(***************************************************************************)
\* C11: a failure of the text-generation call leaves every stage function
\* as a RuntimeError: whenever screen, extract, score_actor or
\* generate_brief has raised after a failed call, the exception's class is
\* RuntimeError and never the service's own APIError.
C11_ApiFailureIsWrapped ==
    /\ f_pc = "raised" => f_err # "APIError"
    /\ g_pc = "raised" => g_err = "RuntimeError"
    /\ x_pc = "raised" => x_err.class = "RuntimeError"
    /\ s_pc = "raised" => s_err.class # "APIError"

(***************************************************************************)
(* Claims about the text writers, checked under SpecText.                  *)
(***************************************************************************)
\* C12: every content element a writer sends holds at most 2000
\* characters, and the elements _rich_text makes of a text are consecutive
\* slices of it from its first character to its last.
C12_ElementsAtMost2000 ==
    t_pc = "sent" =>
        /\ \A i \in 1..Len(t_out) : t_out[i].to - t_out[i].from <= 2000
        /\ t_fn \in RichTextFns =>
              /\ t_out[1].from = 0
              /\ t_out[Len(t_out)].to = t_in.len
              /\ \A i \in 1..(Len(t_out) - 1) : t_out[i].to = t_out[i + 1].from

(***************************************************************************)
(* Claims about write_actors, checked under SpecActors (overlapping        *)
(* invocations) and SpecActorsSeq (one invocation after the other).        *)
(***************************************************************************)
\* The number of registry pages titled name.
Records(reg, name) == Cardinality({i \in 1..Len(reg) : reg[i] = Page("Actors", name)})

\* C13: nothing protects the lookup-then-create: an invocation whose lookup
\* found no match creates its record without looking again, also when the
\* registry has meanwhile received a record of that name from another
\* invocation, so the registry then holds one record more of that name.
C13_CreateIgnoresConcurrentCreate ==
    [][\A p \in Invocations :
          (a_inv[p].pc = "create" /\ a_inv'[p].pc = "lookup") =>
              LET name == a_inv[p].actors[a_inv[p].i]
              IN  Records(a_reg', name) = Records(a_reg, name) + 1]_vars

\* Two invocations named the same new entity, both lookups found nothing,
\* and the registry holds two records of that name.
C13_Witness ==
    /\ Records(a_reg, "Mali") = 2
    /\ \A p \in {1, 2} :
          /\ a_inv[p].actors = <<"Mali">>
          /\ a_inv[p].results = <<[name |-> "Mali", is_new |-> TRUE]>>

\* C14: with invocations made one after the other, the registry never
\* holds two records of the same name.
C14_OneRecordPerName ==
    \A i, j \in 1..Len(a_reg) : a_reg[i].name = a_reg[j].name => i = j

(***************************************************************************)
(* Claims about the database queries, checked under SpecQuery.             *)
(***************************************************************************)
\* The records of all pages, in order.
RECURSIVE AllRecords(_)
AllRecords(pages) == IF pages = <<>> THEN <<>> ELSE Head(pages) \o AllRecords(Tail(pages))

\* C15: every database query auto-paginates: a query function that has
\* returned has sent one request per page of the store, the first without
\* a cursor and each next one with the cursor the store returned, and its
\* results are the records of all pages in order.
C15_QueriesPaginate ==
    q_pc = "returned" =>
        /\ q_results = AllRecords(q_pages)
        /\ Len(q_requests) = Len(q_pages)
        /\ \A k \in 1..Len(q_requests) : q_requests[k] = IF k = 1 THEN 0 ELSE k

(***************************************************************************)
(* More claims about the validator, checked under SpecScreen.              *)
(***************************************************************************)
\* json.dumps of a result and json.loads of that text: the text is one
\* object, every field is present with the type the validator gave it,
\* and the two optional fields are present only when the result has them.
Serialise(r) ==
    [raw  |-> PlainRaw,
     data |-> Response(IntV(r.score), StrV(r.verdict), StrV(r.reasoning),
                       [t |-> "list", l |-> r.affected_databases],
                       [t |-> "list",
                        l |-> [i \in 1..Len(r.key_signals) |-> StrV(r.key_signals[i])]],
                       IF r.dimension_scores.t = "dict"
                       THEN [t |-> "dict",
                             d |-> [k \in DOMAIN r.dimension_scores.d |->
                                        IntV(r.dimension_scores.d[k])]]
                       ELSE NoDims,
                       IF r.penalties.t = "int" THEN IntV(r.penalties.n) ELSE Absent)]

\* C16: validation is idempotent: a returned result, serialised and
\* validated again, yields the identical result.
C16_ValidationIdempotent ==
    spc = "returned" =>
        parse_and_validate(Serialise(result).raw, Serialise(result).data) = result

\* A result the first validation had to work for: signals were cut and
\* stringified, a database was dropped, and the verdict was recomputed.
C16_Witness ==
    /\ spc = "returned"
    /\ Len(data.key_signals.l) > MaxKeySignals
    /\ Len(result.key_signals) = MaxKeySignals
    /\ result.affected_databases # <<>>
    /\ Len(result.affected_databases) < Len(data.affected_databases.l)
    /\ data.verdict = StrV("Maybe")
    /\ result.verdict = "Strong Match"

\* The positions of a raw list that hold an allow-listed name.
KnownPositions(l) == {i \in 1..Len(l) : l[i] \in NotionDatabases}

\* The i-th smallest member of a set of positions.
NthPosition(pos, i) == CHOOSE p \in pos : Cardinality({q \in pos : q <= p}) = i

\* C17: for a list-shaped affected_databases, validation raises nothing at
\* that field, and the result holds exactly the allow-listed entries of
\* the raw list, in the raw list's order.
C17_AffectedFilteredInOrder ==
    (result # NoResult /\ data.affected_databases.t = "list") =>
        /\ result.at # "affected_databases"
        /\ result.ok =>
              LET l   == data.affected_databases.l
                  pos == KnownPositions(l)
                  res == result.affected_databases
              IN  /\ \A i \in 1..Len(res) : res[i] \in NotionDatabases
                  /\ Len(res) = Cardinality(pos)
                  /\ \A i \in 1..Len(res) : res[i] = l[NthPosition(pos, i)]

\* An unknown entry was dropped in front of a known one that survived.
C17_Witness ==
    /\ spc = "returned"
    /\ data.affected_databases.t = "list"
    /\ Len(data.affected_databases.l) >= 2
    /\ data.affected_databases.l[1] \notin NotionDatabases
    /\ result.affected_databases = <<data.affected_databases.l[2]>>

\* C18: every result has an integer score in 0..100 and one of the four
\* labels as verdict; when a verdict was stated that is not one of the
\* four labels, the result verdict is the tier of the clamped score.
C18_ScoreAndVerdictValid ==
    spc = "returned" =>
        /\ result.score \in 0..100
        /\ result.verdict \in ValidVerdicts
        /\ (data.verdict.t # "absent"
                /\ ~(data.verdict.t = "str" /\ data.verdict.s \in ValidVerdicts))
              => IsTierOf(result.verdict, result.score)

\* An unknown label next to a score above the range.
C18_Witness ==
    /\ spc = "returned"
    /\ data.verdict = StrV("Maybe")
    /\ data.score = IntV(150)
    /\ result.score = 100
    /\ result.verdict = "Strong Match"

\* C19: the dimension_scores of a result has only recognised keys, and
\* every value is an integer in 0..20.
C19_DimensionsRecognisedAndClamped ==
    (spc = "returned" /\ result.dimension_scores.t = "dict") =>
        /\ DOMAIN result.dimension_scores.d \subseteq DimKeys
        /\ \A k \in DOMAIN result.dimension_scores.d :
              result.dimension_scores.d[k] \in 0..20

\* A raw mapping with an unknown key, a value above and a value below the
\* range.
C19_Witness ==
    /\ spc = "returned"
    /\ data.dimension_scores.t = "dict"
    /\ "bonus" \in DOMAIN data.dimension_scores.d
    /\ data.dimension_scores.d["actor_relevance"] = IntV(25)
    /\ data.dimension_scores.d["bonus"] = IntV(-3)
    /\ result.dimension_scores.d = [k \in {"actor_relevance"} |-> 20]

\* C20: the penalties of a result, when it has one, is an integer at most 0.
C20_PenaltiesAtMostZero ==
    (spc = "returned" /\ result.penalties.t = "int") => result.penalties.n <= 0

\* C21: the key_signals of a result has at most five entries: the first
\* five entries of the raw list in order, each as a string, and the empty
\* sequence when the raw field is not a list.
C21_KeySignalsFirstFive ==
    spc = "returned" =>
        /\ Len(result.key_signals) <= 5
        /\ IF data.key_signals.t = "list"
           THEN /\ Len(result.key_signals) = Min(5, Len(data.key_signals.l))
                /\ \A i \in 1..Len(result.key_signals) :
                      result.key_signals[i] = PyStr(data.key_signals.l[i])
           ELSE result.key_signals = <<>>

\* A raw list of more than five entries, a number and a null among them.
C21_Witness ==
    /\ spc = "returned"
    /\ data.key_signals.t = "list"
    /\ Len(data.key_signals.l) > 5
    /\ result.key_signals = <<"1", "7", "None", "4", "5">>

(***************************************************************************)
(* More claims about the score agent, checked under SpecScore.             *)
(***************************************************************************)
\* C22: the pf_score score_actor returns is authority_score * 0.6 +
\* reach_score * 0.4 of the parsed scores, which have passed validation,
\* so that in tenths it is 6 * authority + 4 * reach and lies in 0..1000,
\* whatever pf_score the response held; and a success record is made only
\* by the step that follows a passed validation.
C22_PfScoreComputedLocally ==
    /\ [](s_pc = "returned" =>
            /\ validate_scores(s_scores) = ""
            /\ s_ret.success
            /\ s_ret.pf_score10.t = "int"
            /\ s_ret.pf_score10.n
                  = 6 * s_scores.authority_score.n + 4 * s_scores.reach_score.n
            /\ s_ret.pf_score10.n \in 0..1000)
    /\ [][(s_ret' # s_ret /\ s_ret'.success) => s_pc = "validated"]_vars

\* The response held a pf_score of 99 next to authority 70 and reach 40,
\* and 58.0 was returned.
C22_Witness ==
    /\ s_pc = "returned"
    /\ s_scores.pf_score = IntV(99)
    /\ s_scores.authority_score = IntV(70)
    /\ s_scores.reach_score = IntV(40)
    /\ s_ret.pf_score10 = IntV(580)

(***************************************************************************)
(* More claims about the stage functions, checked under SpecStages.        *)
(***************************************************************************)
\* C23: screen calls the model at most once: when it has ended on a blank
\* text it made no call and raised ValueError, when it has ended on any
\* other text it made exactly one call, and once it has raised (the
\* RuntimeError of a failed call, the error of a malformed response) or
\* returned it makes no further call.
C23_ScreenCallsAtMostOnce ==
    /\ [](/\ Len(f_calls) <= 1
          /\ (f_pc \in {"returned", "raised"} /\ f_text = "blank") =>
                (f_calls = <<>> /\ f_err = "ValueError")
          /\ (f_pc \in {"returned", "raised"} /\ f_text \in {"short", "text", "long"}) =>
                Len(f_calls) = 1)
    /\ [][(f_pc = "returned" \/ f_pc = "raised") => f_calls' = f_calls]_vars

\* screen has raised on a malformed response after its one call.
C23_Witness ==
    /\ f_pc = "raised"
    /\ f_text = "text"
    /\ Len(f_calls) = 1
    /\ result.at \in {"search", "json.loads"}

\* C24: a text of fewer than 200 characters is unusable: screen raises on
\* it before any call to the model is issued.
C24_ShortTextRaisesBeforeCall ==
    f_text = "short" => (f_calls = <<>> /\ f_pc \in {"start", "raised"})

(***************************************************************************)
(* More claims about the extraction pipeline, checked under SpecExtract.   *)
(***************************************************************************)
\* C25: when the first response and the retry response are both
\* unparsable, the RuntimeError raised by extract carries both raw
\* responses, the first and the second.
C25_ErrorCarriesBothRaws ==
    (x_pc = "raised" /\ x_err.class = "RuntimeError") =>
        \A i \in {1, 2} : \E j \in 1..Len(x_err.raws) : x_err.raws[j] = x_resps[i]

\* The actors of the parsed data that are dicts, in order.
DictActors == SelectSeq(x_data.actors, IsDict)

\* The number of printed warnings about an actor_type.
ActorTypeWarnings ==
    Cardinality({j \in 1..Len(x_warn) : x_warn[j] = "actors.actor_type"})

StoresAtStart == {<<>>, <<Page("Actors", "Mali")>>}

IsPrefix(s, t) == Len(s) <= Len(t) /\ SubSeq(t, 1, Len(s)) = s

\* C27: nothing is written to the store before the user approves.  In the
\* CLI every step that changes the store is taken after the answer "y",
\* and a run whose answer is anything else, or is not given, has written
\* nothing.  In the app every script run that changes the store answers a
\* click on Run Ingestion with the buttons shown, so the runs that screen
\* (upload, discard) write nothing, and without an executed chain nothing
\* is written.
C27_NoWriteBeforeApproval ==
    /\ [][c_pages' # c_pages => c_confirm = "y"]_vars
    /\ [](c_confirm # "y" => (c_pages \in StoresAtStart \cup {<<>>} /\ c_source_id = 0))
    /\ [][p_store' # p_store => (p_event' = "run" /\ ButtonsShown)]_vars
    /\ [](p_chains = 0 => p_store \in StoresAtStart \cup {<<>>})

\* The user answered "Y", and the Source and the Event were written.
C27_Witness ==
    /\ c_confirm = "y"
    /\ c_pc = "intel_feed"
    /\ Len(c_pages) >= 2
    /\ c_pages[Len(c_pages)].db = "Events"

\* The steps of main() in order.
CliOrder ==
    {<<"acquire", "extract">>, <<"extract", "confirm">>, <<"confirm", "source">>,
     <<"source", "event">>, <<"event", "intel_feed">>, <<"intel_feed", "actors">>,
     <<"actors", "activity_log">>}

\* Every Event page of a store holds the id of the Source page created
\* just before it.
EventsLinked(pages) ==
    \A i \in 1..Len(pages) :
        pages[i].db = "Events" =>
            (i > 1 /\ pages[i].source = i - 1 /\ pages[i - 1].db = "Sources")

\* The pages a step added, without the actor pages and the score updates.
StagePages(old, new) ==
    LET added == SubSeq(new, Len(old) + 1, Len(new))
        dbs   == [i \in 1..Len(added) |-> added[i].db]
    IN  SelectSeq(dbs, LAMBDA db : db # "Actors")

\* C28: the chain runs its stages in the order extraction, Source, Event,
\* Intel Feed, Actors, and in the app actor scoring.  In the CLI the step
\* moves only from one stage to the next, each write stage that succeeds
\* adds its page, and a run that has ended does nothing more.  In the app
\* the stages a chain called are a prefix of the chain, ending at the
\* stage that raised if one did, and the pages it created are those of
\* the stages that returned.  In both, an Event holds the id of the Source
\* created just before it, and pages once written stay in the store.
C28_StagesInOrderNoRollback ==
    /\ [][/\ c_pc' # c_pc => (<<c_pc, c_pc'>> \in CliOrder /\ c_end' = "running")
          /\ IsPrefix(c_pages, c_pages')
          /\ (c_pc = "source" /\ c_pc' = "event") => StagePages(c_pages, c_pages') = <<"Sources">>
          /\ (c_pc = "event" /\ c_pc' = "intel_feed") =>
                StagePages(c_pages, c_pages') = <<"Events">>
          /\ (c_pc = "intel_feed" /\ c_pc' = "actors") =>
                StagePages(c_pages, c_pages') = <<"Intel Feeds">>
          /\ c_end # "running" => (c_pc' = c_pc /\ c_pages' = c_pages)
          /\ (c_end = "running" /\ c_end' \in {"exit1", "uncaught"}) => c_pc' = c_pc]_vars
    /\ [](EventsLinked(c_pages) /\ EventsLinked(p_store))
    /\ [](/\ IsPrefix(p_stages, ChainStages)
          /\ p_failed # "" => p_stages[Len(p_stages)] = p_failed
          /\ (p_failed = "" /\ p_stages # <<>>) => Len(p_stages) >= Len(ChainStages) - 1)
    /\ [][/\ IsPrefix(p_store, p_store')
          /\ p_chains' # p_chains => (p_status' = "failed" <=> p_failed' # "")
          /\ p_chains' # p_chains =>
                LET returned == Len(p_stages') - (IF p_failed' = "" THEN 0 ELSE 1)
                    written  == IF returned <= 2 THEN 0
                                ELSE IF returned >= 5 THEN 3 ELSE returned - 2
                IN  StagePages(p_store, p_store')
                       = SubSeq(<<"Sources", "Events", "Intel Feeds">>, 1, written)]_vars

\* In the app the Intel Feed write raised: the Source and the Event linked
\* to it stay in the store and no later stage ran.
C28_Witness ==
    /\ p_failed = "intel_feed"
    /\ p_stages = <<"text", "extract", "source", "event", "intel_feed">>
    /\ Len(p_store) >= 2
    /\ p_store[Len(p_store)].db = "Events"
    /\ p_store[Len(p_store)].source = Len(p_store) - 1

\* C29: in the app the chain is executed only by a click on Run Ingestion
\* that finds no ingestion_status, and it always leaves one, success or
\* failure; a kept ingestion_status is dropped only by Discard, by the
\* removal of the upload, or by an upload of different content.  So for
\* one content hash the chain is executed at most once until such a reset.
C29_ChainOncePerDocument ==
    /\ [][p_chains' # p_chains =>
            /\ p_event' = "run"
            /\ p_chains' = p_chains + 1
            /\ p_status = "absent"
            /\ p_status' # "absent"]_vars
    /\ [][(p_status # "absent" /\ p_status' # p_status) =>
            /\ p_status' = "absent"
            /\ \/ p_event' \in {"discard", "remove"}
               \/ p_event' = "upload" /\ p_upload' # p_hash]_vars
    /\ [](p_status # "absent" => (p_chains >= 1 /\ p_hash = p_upload))

\* A second execution of the chain, after a failed one and a reset.
C29_Witness ==
    /\ p_chains = 2
    /\ p_event = "run"
    /\ p_status = "failed"
    /\ Len(p_store) >= 2

(***************************************************************************)
(* More claims about the brief app, checked under SpecLog.                 *)
(***************************************************************************)
\* C30: one generated brief is saved to the store at most once, and while
\* saved_url is set the page shows no enabled Approve button.
C30_BriefSavedAtMostOnce ==
    /\ \A i, j \in 1..Len(b_briefs) : b_briefs[i] = b_briefs[j] => i = j
    /\ (b_pc = "page" /\ b_saved) => b_shown # "enabled"

====
